---- MODULE Spec2Model ----
(***************************************************************************)
(* A model of the sass compiler core: the lexer (package lexer), the       *)
(* selector resolver helpers (package ast) and the code generator          *)
(* (package compiler).                                                     *)
(*                                                                         *)
(* Strings are sequences of one-byte strings, so that slicing, splitting   *)
(* and prefix tests are computed as the Go code computes them.  A byte     *)
(* that is not ASCII is written "<XX>".                                    *)
(***************************************************************************)
EXTENDS Integers, Sequences, FiniteSets, TLC

VARIABLES
    \* ---- lexer (type Lexer) ----
    input,      \* l.input, as a sequence of bytes
    start,      \* l.start
    pos,        \* l.pos
    width,      \* l.width
    last,       \* l.last
    state,      \* l.state: "Action" or "nil"
    items,      \* l.items, the queue of lexed items
    pc,         \* where control is: "idle" (the caller holds it), "Next"
                \* (the loop of Lexer.Next), a state function, or "panic"
    clast,      \* the local `last` of Lexer.Comment's block-comment loop
    returned,        \* the items Next has returned so far, in order
    pulls,      \* the number of Next calls answered from the terminal state
    \* ---- selector helpers (package ast) ----
    selCall,    \* the call being made: the function and its arguments
    selRet,     \* how the call ended: not yet, a return value, or a panic
    \* ---- code generator (type Context) ----
    doc,        \* the parsed file: the statements ast.Walk is handed
    heap,       \* the declarations the file's objects point to, by address
    agenda,     \* the walk's pending work, innermost first
    ctx,        \* the Context: buf, level, firstRule, activeSel, err, scope
    gpc,        \* where Context.run is: "walk", "done" or "panic"
    ret         \* what Context.run returned: <<>> until it has, then <<[s, err]>>

lexvars == <<input, start, pos, width, last, state, items, pc, clast, returned, pulls>>
selvars == <<selCall, selRet>>
genvars == <<doc, heap, agenda, ctx, gpc, ret>>
vars == <<lexvars, selvars, genvars>>

\* the components a specification does not exercise stay as they are
LexIdle ==
    /\ input = <<>> /\ start = 0 /\ pos = 0 /\ width = 0 /\ last = ""
    /\ state = "nil" /\ items = <<>> /\ pc = "off" /\ clast = ""
    /\ returned = <<>> /\ pulls = 0
SelIdle == selCall = <<>> /\ selRet = <<>>
GenIdle ==
    /\ doc = <<>> /\ heap = <<>> /\ agenda = <<>> /\ ctx = <<>> /\ gpc = "off"
    /\ ret = <<>>

(***************************************************************************)
(* Bounds of the model.                                                    *)
(***************************************************************************)
MaxFrags == 3       \* an input is at most this many fragments long
MaxItems == 7       \* the queue holds at most this many items
MaxPulls == 2       \* Next calls answered after the scan is over

(***************************************************************************)
(* Generic sequence helpers (Go's strings package on byte sequences).      *)
(***************************************************************************)
RECURSIVE Flatten(_)
Flatten(ss) == IF ss = <<>> THEN <<>> ELSE Head(ss) \o Flatten(Tail(ss))

\* s[i:j] in Go's 0-based half-open slicing, for 0 <= i <= j <= len(s)
Slice(s, i, j) == SubSeq(s, i + 1, j)

HasPrefix(s, p) == Len(s) >= Len(p) /\ SubSeq(s, 1, Len(p)) = p

RECURSIVE Join(_, _)
Join(ss, sep) ==
    IF ss = <<>> THEN <<>>
    ELSE IF Len(ss) = 1 THEN Head(ss)
    ELSE Head(ss) \o sep \o Join(Tail(ss), sep)

RECURSIVE Index(_, _)
\* strings.Index: the 0-based offset of the first sub in s, or -1
Index(s, sub) ==
    IF HasPrefix(s, sub) THEN 0
    ELSE IF s = <<>> THEN -1
    ELSE LET r == Index(Tail(s), sub) IN IF r < 0 THEN -1 ELSE r + 1

Contains(s, sub) == Index(s, sub) >= 0

RECURSIVE Split(_, _)
\* strings.Split for a non-empty separator
Split(s, sep) ==
    LET i == Index(s, sep) IN
    IF i < 0 THEN <<s>>
    ELSE <<Slice(s, 0, i)>> \o Split(Slice(s, i + Len(sep), Len(s)), sep)

RECURSIVE Replace(_, _, _)
\* strings.Replace(s, old, new, -1) for a non-empty old
Replace(s, old, new) ==
    LET i == Index(s, old) IN
    IF i < 0 THEN s
    ELSE Slice(s, 0, i) \o new \o Replace(Slice(s, i + Len(old), Len(s)), old, new)

(***************************************************************************)
(* Runes.  An ASCII byte decodes to itself; EOF is the rune 0x04.          *)
(***************************************************************************)
EOF == "<04>"
RuneError == "U+FFFD"
NUL == "U+0000"

\* The multi-byte encodings the inputs use: U+00E9 (a letter, two bytes)
\* and U+1F600 (an emoji, four bytes).
MultiByte ==
    { [bytes |-> <<"<C3>", "<A9>">>, r |-> "U+00E9"],
      [bytes |-> <<"<F0>", "<9F>", "<98>", "<80>">>, r |-> "U+1F600"] }

NonAscii == {"<C3>", "<A9>", "<F0>", "<9F>", "<98>", "<80>", "<FF>"}

\* utf8.DecodeRuneInString(s) for a non-empty s
DecodeRuneInString(s) ==
    IF \E m \in MultiByte : HasPrefix(s, m.bytes)
    THEN LET m == CHOOSE x \in MultiByte : HasPrefix(s, x.bytes)
         IN  [r |-> m.r, n |-> Len(m.bytes)]
    ELSE IF Head(s) \in NonAscii THEN [r |-> RuneError, n |-> 1]
    ELSE [r |-> Head(s), n |-> 1]

Letters ==
    { "a", "b", "c", "d", "e", "f", "g", "h", "i", "j", "k", "l", "m",
      "n", "o", "p", "q", "r", "s", "t", "u", "v", "w", "x", "y", "z",
      "U+00E9" }
Numbers == { "0", "1", "2", "3", "4", "5", "6", "7", "8", "9" }
Symbols == { "/", "\\", ".", "*", "-", "_" }

IsEOF(c, n) == n = 0
IsInvalid(c, n) == c = RuneError /\ n = 1
AllowedRunes == Numbers \cup Letters \cup Symbols
SpaceRunes == { " ", "\t", "\n", "\r" }
IsAllowedRune(r) == r \in AllowedRunes
IsSymbol(r) == r \in { "(", ")", ",", ";", "{", "}", "#", ":" }
IsSpace(r) == r \in SpaceRunes
\* unicode.IsGraphic: letters, marks, numbers, punctuation, symbols and
\* spaces; the control characters are not graphic
IsGraphic(r) == r \notin { EOF, NUL, "\t", "\n", "\r" }

(***************************************************************************)
(* The lexer's primitives, on a record l of the Lexer's fields.  A Go      *)
(* runtime panic (a slice out of range, a nil dereference) sets l.panic.   *)
(***************************************************************************)
Item(t, p, v) == [Type |-> t, Pos |-> p, Value |-> v]

Lexer == [start |-> start, pos |-> pos, width |-> width, last |-> last,
          items |-> items, panic |-> FALSE]

Panic(l) == [l EXCEPT !.panic = TRUE]

enqueue(l, i) == [l EXCEPT !.items = Append(l.items, i)]

\* whether l.input[l.start:l.pos] is a legal slice expression
SliceOK(l) == 0 <= l.start /\ l.start <= l.pos /\ l.pos <= Len(input)

Current(l) == Slice(input, l.start, l.pos)

Advance(l) ==
    IF l.panic THEN [l |-> l, r |-> EOF, n |-> 0]
    ELSE IF l.pos >= Len(input)
    THEN [l |-> [l EXCEPT !.width = 0], r |-> EOF, n |-> 0]
    ELSE IF l.pos < 0 THEN [l |-> Panic(l), r |-> EOF, n |-> 0]
    ELSE LET d == DecodeRuneInString(Slice(input, l.pos, Len(input)))
             l1 == [l EXCEPT !.last = d.r, !.width = d.n]
         IN  IF d.r = RuneError /\ d.n = 1
             THEN [l |-> l1, r |-> d.r, n |-> d.n]
             ELSE [l |-> [l1 EXCEPT !.pos = l.pos + d.n], r |-> d.r, n |-> d.n]

Backup(l) == IF l.panic THEN l ELSE [l EXCEPT !.pos = l.pos - l.width]

Peek(l) == LET a == Advance(l) IN [l |-> Backup(a.l), r |-> a.r, n |-> a.n]

Ignore(l) == IF l.panic THEN l ELSE [l EXCEPT !.start = l.pos]

\* valid is the set of the runes of Go's string argument
Accept(l, valid) ==
    LET a == Advance(l) IN
    IF a.r \in valid THEN [l |-> a.l, ok |-> TRUE]
    ELSE [l |-> Backup(a.l), ok |-> FALSE]

\* fn is the set of the runes the Go predicate holds of
AcceptFunc(l, fn) ==
    LET a == Advance(l) IN
    IF IsEOF(a.r, a.n) THEN [l |-> a.l, ok |-> FALSE]
    ELSE IF IsInvalid(a.r, a.n) THEN [l |-> a.l, ok |-> FALSE]
    ELSE IF a.r \in fn THEN [l |-> a.l, ok |-> TRUE]
    ELSE [l |-> Backup(a.l), ok |-> FALSE]

RECURSIVE AcceptRunFunc(_, _)
AcceptRunFunc(l, fn) ==
    LET a == AcceptFunc(l, fn) IN
    IF a.ok /\ ~a.l.panic THEN AcceptRunFunc(a.l, fn) ELSE a.l

AcceptString(l, s) ==
    IF l.panic THEN [l |-> l, ok |-> FALSE]
    ELSE IF Len(input) - l.pos < Len(s) THEN [l |-> l, ok |-> FALSE]
    ELSE IF l.pos < 0 THEN [l |-> Panic(l), ok |-> FALSE]
    ELSE IF HasPrefix(Slice(input, l.pos, l.pos + Len(s)), s)
    THEN [l |-> [l EXCEPT !.pos = l.pos + Len(s)], ok |-> TRUE]
    ELSE [l |-> l, ok |-> FALSE]

Emit(l, t) ==
    IF l.panic THEN l
    ELSE IF ~SliceOK(l) THEN Panic(l)
    ELSE [enqueue(l, Item(t, l.start, Current(l))) EXCEPT !.start = l.pos]

(***************************************************************************)
(* The names the state functions match, as byte sequences.                 *)
(***************************************************************************)
sSprite == <<"s", "p", "r", "i", "t", "e">>
sImage  == <<"i", "m", "a", "g", "e">>
sWidth  == <<"w", "i", "d", "t", "h">>
sHeight == <<"h", "e", "i", "g", "h", "t">>
sMap    == <<"m", "a", "p">>
sUrl    == <<"u", "r", "l">>
sName   == <<"n", "a", "m", "e">>
sDash   == <<"-">>

sSpriteMap   == sSprite \o sDash \o sMap
sImageWidth  == sImage \o sDash \o sWidth
sImageHeight == sImage \o sDash \o sHeight

\* the list cmds of Lexer.Text, in its order
cmds ==
    << sSprite \o sDash \o sWidth,
       sSprite \o sDash \o sHeight,
       sSprite \o sDash \o <<"f", "i", "l", "e">>,
       sSprite \o sDash \o sHeight,
       sSprite \o sDash \o <<"p", "a", "t", "h">>,
       sSprite \o sDash \o <<"p", "o", "s", "i", "t", "i", "o", "n">>,
       sSprite \o sDash \o sWidth,
       sSprite \o sDash \o sUrl,
       sSprite \o sDash \o <<"d", "i", "m", "e", "n", "s", "i", "o", "n", "s">>,
       sSpriteMap \o sDash \o sName,
       sSprite \o sDash \o sName \o <<"s">>,
       sImage \o sDash \o sUrl,
       <<"i", "n", "l", "i", "n", "e">> \o sDash \o sImage,
       sImageWidth,
       sImageHeight >>

\* the at-rule keywords of Lexer.Directive, in its order, with their items
directives ==
    << [s |-> <<"@", "i", "m", "p", "o", "r", "t">>, t |-> "IMPORT"],
       [s |-> <<"@", "i", "n", "c", "l", "u", "d", "e">>, t |-> "INCLUDE"],
       [s |-> <<"@", "e", "a", "c", "h">>, t |-> "EACH"],
       [s |-> <<"@", "f", "u", "n", "c", "t", "i", "o", "n">>, t |-> "FUNC"],
       [s |-> <<"@", "m", "i", "x", "i", "n">>, t |-> "MIXIN"],
       [s |-> <<"@", "i", "f">>, t |-> "IF"],
       [s |-> <<"@", "e", "l", "s", "e">>, t |-> "ELSE"] >>

\* token.Lookup: whether the text is a reserved command name
Lookup(s) ==
    IF s = sSprite \/ s = sSpriteMap \/ \E i \in 1..Len(cmds) : cmds[i] = s
    THEN 1 ELSE 0

(***************************************************************************)
(* The state functions.  Each returns the lexer record it leaves and the   *)
(* state function it calls next ("nil": it returns nil to Next).           *)
(***************************************************************************)
To(l, next) == [l |-> l, next |-> IF l.panic THEN "panic" ELSE next]

\* one iteration of the loop of Lexer.Action
Action(l) ==
    LET a == Advance(l)
        r == a.r
        l1 == a.l
    IN  IF l1.panic THEN To(l1, "panic")
        ELSE IF r = EOF
        THEN To(enqueue(l1, Item("ItemEOF", l1.start, <<>>)), "nil")
        ELSE IF IsSpace(r) THEN To(Ignore(l1), "Action")
        ELSE IF IsSymbol(r)
        THEN LET l2 == Backup(l1) IN
             IF ~SliceOK(l2) THEN To(Panic(l2), "panic")
             ELSE IF Len(Current(l2)) > 0 THEN To(Emit(l2, "TEXT"), "Paren")
             ELSE To(l2, "Paren")
        ELSE IF r = "/" /\ Accept(l1, {"/", "*"}).ok
        THEN To(Accept(l1, {"/", "*"}).l, "Comment")
        ELSE IF r = "/" THEN To(Backup(Accept(l1, {"/", "*"}).l), "Math")
        ELSE IF r \in {"*", "-", "+", "/"} THEN To(Backup(l1), "Math")
        ELSE IF r = "@" THEN To(Backup(l1), "Directive")
        ELSE IF r = "\"" \/ r = "'" THEN To(l1, "File")
        ELSE IF r = "$" THEN To(l1, "Var")
        ELSE IF IsAllowedRune(r) THEN To(Backup(l1), "Text")
        ELSE To(l1, "Action")

Math(l) ==
    LET a1 == Accept(l, {"*"})
        a2 == Accept(a1.l, {"+"})
        a3 == Accept(a2.l, {"-"})
        a4 == Accept(a3.l, {"/"})
    IN  IF a1.ok THEN To(Emit(a1.l, "MULT"), "Action")
        ELSE IF a2.ok THEN To(Emit(a2.l, "PLUS"), "Action")
        ELSE IF a3.ok THEN To(Emit(a3.l, "MINUS"), "Action")
        ELSE IF a4.ok THEN To(Emit(a4.l, "MULT"), "Action")
        ELSE To(a4.l, "Action")

RECURSIVE DirectiveFrom(_, _)
DirectiveFrom(l, i) ==
    IF i > Len(directives) THEN To(Accept(l, {"@"}).l, "Text")
    ELSE LET a == AcceptString(l, directives[i].s) IN
         IF a.ok THEN To(Emit(a.l, directives[i].t), "Action")
         ELSE DirectiveFrom(a.l, i + 1)

Directive(l) == DirectiveFrom(l, 1)

Paren(l) ==
    LET a0 == AcceptString(l, <<"#", "{">>)
        a1 == Accept(a0.l, {"("})
        a2 == Accept(a1.l, {")"})
        a3 == Accept(a2.l, {"{"})
        a4 == Accept(a3.l, {"}"})
        a5 == Accept(a4.l, {":"})
        a6 == Accept(a5.l, {";"})
    IN  IF a0.ok THEN To(Emit(a0.l, "INTP"), "Action")
        ELSE IF a1.ok
        THEN LET l2 == Emit(a1.l, "LPAREN")
                 d == Accept(l2, {"$"})
             IN  IF d.ok
                 THEN LET l3 == AcceptRunFunc(d.l, AllowedRunes)
                          l4 == Emit(l3, "SUB")
                      IN  To(Accept(l4, {",", " "}).l, "File")
                 \* last := l.items.Back() is nil when the queue was empty
                 ELSE IF l.items = <<>> THEN To(Panic(d.l), "panic")
                 ELSE IF l.items[Len(l.items)].Value \in {sImageHeight, sImageWidth}
                 THEN To(d.l, "File")
                 ELSE To(d.l, "Action")
        ELSE IF a2.ok THEN To(Emit(a2.l, "RPAREN"), "Action")
        ELSE IF a3.ok THEN To(Emit(a3.l, "LBRACKET"), "Action")
        ELSE IF a4.ok THEN To(Emit(a4.l, "RBRACKET"), "Action")
        ELSE IF a5.ok THEN To(Emit(a5.l, "COLON"), "Action")
        ELSE IF a6.ok THEN To(Emit(a6.l, "SEMIC"), "Action")
        ELSE To(Advance(a6.l).l, "Action")

\* the switch of Lexer.Comment; its two loops are CommentBlock and CommentLine
Comment(l) ==
    IF ~SliceOK(l) THEN To(Panic(l), "panic")
    ELSE IF Current(l) = <<"/", "*">> THEN To(l, "CommentBlock")
    ELSE IF Current(l) = <<"/", "/">> THEN To(l, "CommentLine")
    ELSE To(l, "Action")

\* one iteration of the block-comment loop; cl is the local `last`
CommentBlock(l, cl) ==
    LET a == Advance(l) IN
    IF cl = "*" /\ a.r = "/" THEN To(Emit(a.l, "CMT"), "Action") @@ [cl |-> NUL]
    ELSE IF a.r = EOF THEN To(Emit(a.l, "CMT"), "Action") @@ [cl |-> NUL]
    ELSE To(a.l, "CommentBlock") @@ [cl |-> a.r]

\* one iteration of the line-comment loop
CommentLine(l) ==
    LET a == Advance(l) IN
    IF ~IsGraphic(a.r) THEN To(Emit(a.l, "CMT"), "Action")
    ELSE To(a.l, "CommentLine")

Var(l) ==
    LET l1 == Accept(l, {"$"}).l
        l2 == AcceptRunFunc(l1, AllowedRunes)
        p == Peek(l2)
    IN  IF p.r = ":" THEN To(Emit(p.l, "VAR"), "Action")
        ELSE To(Emit(p.l, "SUB"), "Action")

RECURSIVE TextCmds(_, _)
\* the loop over cmds in Lexer.Text and what follows it
TextCmds(l, i) ==
    IF i <= Len(cmds)
    THEN LET a == AcceptString(l, cmds[i]) IN
         IF a.ok THEN To(Emit(a.l, "CMD"), "Action")
         ELSE TextCmds(a.l, i + 1)
    ELSE LET s == AcceptString(l, sSprite)
             m == Accept(s.l, {"-"})
         IN  IF s.ok THEN To(Emit(s.l, "CMD"), "Action")
             ELSE IF m.ok THEN To(Ignore(m.l), "Text")
             ELSE To(Emit(AcceptRunFunc(m.l, AllowedRunes), "TEXT"), "Action")

Text(l) ==
    IF ~SliceOK(l) THEN To(Panic(l), "panic")
    ELSE LET l1 == IF Current(l) = <<":">> THEN Ignore(l) ELSE l
             a == AcceptString(l1, sSpriteMap)
         IN  IF a.ok THEN To(Emit(a.l, "CMDVAR"), "Action")
             ELSE TextCmds(a.l, 1)

File(l) ==
    LET l1 == AcceptFunc(l, SpaceRunes).l
        l2 == Ignore(l1)
        l3 == AcceptRunFunc(l2, AllowedRunes)
    IN  IF ~SliceOK(l3) THEN To(Panic(l3), "panic")
        ELSE IF Len(Current(l3)) > 0
        THEN IF Lookup(Current(l3)) > 0 THEN To(Emit(l3, "CMD"), "Action")
             ELSE To(Emit(l3, "FILE"), "Action")
        ELSE To(l3, "Action")

(***************************************************************************)
(* The lexer as a state machine.  The state functions call one another     *)
(* directly (return l.Paren()), so one call of l.state(l) from Next runs   *)
(* until Action returns nil; each step below is one such call or one       *)
(* iteration of a loop.                                                    *)
(***************************************************************************)
\* An input is an optional leading comment followed by at most MaxFrags
\* characters: a letter, a space, symbols, operators, a two-byte letter, a
\* four-byte emoji, an invalid byte and the control character 0x04.
Frags ==
    { <<"a">>, <<" ">>, <<";">>, <<"(">>, <<"/">>, <<"*">>, <<"$">>, <<"@">>,
      <<"<C3>", "<A9>">>, <<"<F0>", "<9F>", "<98>", "<80>">>, <<"<FF>">>,
      <<"<04>">> }

Leads ==
    { <<>>, <<"/", "*", " ", "*", "/">>, <<"/", "/", " ", "<04>">> }

\* the names Lexer.Text matches: sprite-map, the list cmds, sprite
Names == {sSpriteMap, sSprite} \cup {cmds[i] : i \in 1..Len(cmds)}

\* what stands behind a name: nothing, an argument list being opened, a
\* separator
Tails == { <<>>, <<"(">>, <<"(", "a">>, <<"(", "$">>, <<";">>, <<" ", "a">> }

Inputs ==
    { ld \o Flatten(fs) :
        ld \in Leads, fs \in UNION { [1..n -> Frags] : n \in 0..MaxFrags } }
    \cup { n \o t : n \in Names, t \in Tails }

\* New(Action, input)
LexInit ==
    /\ input \in Inputs
    /\ start = 0
    /\ pos = 0
    /\ width = 0
    /\ last = NUL
    /\ state = "Action"
    /\ items = <<>>
    /\ pc = "idle"
    /\ clast = NUL
    /\ returned = <<>>
    /\ pulls = 0
    /\ SelIdle /\ GenIdle

\* the lexer after a step that left the record res.l and calls res.next
Commit(res) ==
    /\ Len(res.l.items) <= MaxItems
    /\ start' = res.l.start
    /\ pos' = res.l.pos
    /\ width' = res.l.width
    /\ last' = res.l.last
    /\ items' = res.l.items
    /\ IF res.next = "nil"
       THEN state' = "nil" /\ pc' = "Next"
       ELSE state' = state /\ pc' = res.next
    /\ UNCHANGED <<input, returned, pulls>>
    /\ UNCHANGED <<selvars, genvars>>

\* Next as it would be if the terminal branch went through Emit, which moves
\* start up to pos.
NextEmitsAtEnd ==
    /\ pc \in {"idle", "Next"}
    /\ IF items # <<>>
       THEN /\ returned' = Append(returned, Head(items))
            /\ items' = Tail(items)
            /\ pc' = "idle"
            /\ UNCHANGED <<state, pulls, start>>
       ELSE IF state = "nil"
       THEN /\ pulls < MaxPulls
            /\ returned' = Append(returned, Item("ItemEOF", start, <<>>))
            /\ start' = pos
            /\ pulls' = pulls + 1
            /\ pc' = "idle"
            /\ UNCHANGED <<state, items>>
       ELSE /\ pc' = state
            /\ UNCHANGED <<state, items, returned, pulls, start>>
    /\ UNCHANGED <<input, pos, width, last, clast>>
    /\ UNCHANGED <<selvars, genvars>>

\* Next as it would be if dequeue took the item at the back of the queue
NextFromBack ==
    /\ pc \in {"idle", "Next"}
    /\ IF items # <<>>
       THEN /\ returned' = Append(returned, items[Len(items)])
            /\ items' = SubSeq(items, 1, Len(items) - 1)
            /\ pc' = "idle"
            /\ UNCHANGED <<state, pulls>>
       ELSE IF state = "nil"
       THEN /\ pulls < MaxPulls
            /\ returned' = Append(returned, Item("ItemEOF", start, <<>>))
            /\ pulls' = pulls + 1
            /\ pc' = "idle"
            /\ UNCHANGED <<state, items>>
       ELSE /\ pc' = state
            /\ UNCHANGED <<state, items, returned, pulls>>
    /\ UNCHANGED <<input, start, pos, width, last, clast>>
    /\ UNCHANGED <<selvars, genvars>>

\* Lexer.Next: one iteration of its loop, entered by a call or after the
\* state function returned
Next ==
    /\ pc \in {"idle", "Next"}
    /\ IF items # <<>>
       THEN /\ returned' = Append(returned, Head(items))
            /\ items' = Tail(items)
            /\ pc' = "idle"
            /\ UNCHANGED <<state, pulls>>
       ELSE IF state = "nil"
       THEN /\ pulls < MaxPulls
            /\ returned' = Append(returned, Item("ItemEOF", start, <<>>))
            /\ pulls' = pulls + 1
            /\ pc' = "idle"
            /\ UNCHANGED <<state, items>>
       ELSE /\ pc' = state
            /\ UNCHANGED <<state, items, returned, pulls>>
    /\ UNCHANGED <<input, start, pos, width, last, clast>>
    /\ UNCHANGED <<selvars, genvars>>

RunAction == pc = "Action" /\ Commit(Action(Lexer)) /\ UNCHANGED clast
RunMath == pc = "Math" /\ Commit(Math(Lexer)) /\ UNCHANGED clast
RunDirective == pc = "Directive" /\ Commit(Directive(Lexer)) /\ UNCHANGED clast
RunParen == pc = "Paren" /\ Commit(Paren(Lexer)) /\ UNCHANGED clast
RunComment == pc = "Comment" /\ Commit(Comment(Lexer)) /\ clast' = NUL
RunCommentBlock ==
    /\ pc = "CommentBlock"
    /\ Commit(CommentBlock(Lexer, clast))
    /\ clast' = CommentBlock(Lexer, clast).cl
RunCommentLine == pc = "CommentLine" /\ Commit(CommentLine(Lexer)) /\ UNCHANGED clast
RunVar == pc = "Var" /\ Commit(Var(Lexer)) /\ UNCHANGED clast
RunText == pc = "Text" /\ Commit(Text(Lexer)) /\ UNCHANGED clast
RunFile == pc = "File" /\ Commit(File(Lexer)) /\ UNCHANGED clast

LexNext ==
    \/ Next
    \/ RunAction
    \/ RunMath
    \/ RunDirective
    \/ RunParen
    \/ RunComment
    \/ RunCommentBlock
    \/ RunCommentLine
    \/ RunVar
    \/ RunText
    \/ RunFile


LexSpec == LexInit /\ [][LexNext]_vars

(***************************************************************************)
(* Claims about the lexer.                                                 *)
(***************************************************************************)
IsEnd(i) == i.Type \in {"ItemEOF", "ItemError"}

\* the items of s that are neither the error nor the end-of-stream item
RECURSIVE Lexemes(_)
Lexemes(s) ==
    IF s = <<>> THEN <<>>
    ELSE IF IsEnd(Head(s)) THEN Lexemes(Tail(s))
    ELSE <<Head(s)>> \o Lexemes(Tail(s))

C2_PosNonDecreasing ==
    \A i \in 1..(Len(returned) - 1) : returned[i].Pos <= returned[i + 1].Pos

\* C3: every returned item other than the error and end-of-stream items
\* carries the input's bytes from its offset on, and the spans of consecutive
\* items do not overlap.
SpanOK(s) ==
    /\ \A i \in 1..Len(s) :
          /\ 0 <= s[i].Pos
          /\ s[i].Pos + Len(s[i].Value) <= Len(input)
          /\ s[i].Value = Slice(input, s[i].Pos, s[i].Pos + Len(s[i].Value))
    /\ \A i \in 1..(Len(s) - 1) : s[i].Pos + Len(s[i].Value) <= s[i + 1].Pos

C3_SpansReconstruct == SpanOK(Lexemes(returned))

\* C4: the scan of every input ends after finitely many steps, also after a
\* decode failure.  The scan is deterministic, so it never ends once it is
\* in a state that its next step leaves exactly as it is: the claim says no
\* such state is reached.
Spins ==
    \/ pc = "Action" /\ Action(Lexer) = To(Lexer, "Action")
    \/ pc = "CommentLine" /\ CommentLine(Lexer) = To(Lexer, "CommentLine")
    \/ /\ pc = "CommentBlock"
       /\ CommentBlock(Lexer, clast) = To(Lexer, "CommentBlock") @@ [cl |-> clast]

C4_ScanEnds == ~Spins

\* control is in Next, not in a state function
InNext == pc \in {"idle", "Next"}

\* C14: Next returns the queued items in the order they were enqueued, and
\* calls the active state function only when the queue is empty.  A step of
\* Next with a non-empty queue returns the item at the front and runs no
\* state function; a step in a state function only adds items at the back.
C14_FifoNext ==
    [][ /\ (InNext /\ items # <<>>) =>
              /\ returned' = Append(returned, Head(items))
              /\ items' = Tail(items)
              /\ InNext'
        /\ (InNext /\ ~InNext') => items = <<>>
        /\ ~InNext =>
              /\ returned' = returned
              /\ Len(items') >= Len(items)
              /\ SubSeq(items', 1, Len(items)) = items ]_vars

\* Next has returned two different items from the front while a third waits
C14_Witness ==
    /\ pc = "idle"
    /\ Len(returned) >= 2
    /\ returned[1] # returned[2]
    /\ items # <<>>
    /\ items[1] # returned[2]

\* the cursor is inside the input or at its end
CursorInInput == pc # "off" /\ 0 <= pos /\ pos <= Len(input)

\* the bytes at the cursor are not a valid encoding
AtInvalid == LET a == Advance(Lexer) IN IsInvalid(a.r, a.n)

\* Advance and then Backup, as Peek and a failed Accept make them, leave pos
\* at p
CursorAfterBackup(p) ==
    /\ Backup(Advance(Lexer).l).pos = p
    /\ Peek(Lexer).l.pos = p
    /\ Accept(Lexer, {}).l.pos = p

\* C15: Advance immediately followed by Backup, and so Peek and a failed
\* Accept, leaves the cursor exactly where it was: in mid-input, at the end
\* of the input, and at an invalid encoding.
C15_BackupRestoresCursor == CursorInInput => CursorAfterBackup(pos)

\* where the cursor is left: in place unless it stands at an invalid
\* encoding, and one byte back if it does
C15_CursorAfterBackup ==
    CursorInInput => CursorAfterBackup(IF AtInvalid THEN pos - 1 ELSE pos)

C15_AtInvalidReached == CursorInInput /\ AtInvalid /\ pos > 0 /\ pc # "idle"

\* the runes Action's switch has no case for but the default
Dropped(r) ==
    /\ r \notin {EOF, RuneError}
    /\ ~IsSpace(r)
    /\ ~IsSymbol(r)
    /\ r \notin {"/", "*", "-", "+", "@", "\"", "'", "$"}
    /\ ~IsAllowedRune(r)

\* the input begins with such a rune, which Action is the state to read
FirstRune == DecodeRuneInString(input)
DroppedFirst == input # <<>> /\ pc # "off" /\ Dropped(FirstRune.r)

\* the items emitted so far: those returned and those still queued
Emitted == returned \o items

\* C16: a character that is not whitespace, a structural or arithmetic
\* symbol, '@', a quote, '$' or an allowed rune is dropped by the dispatch
\* state and appears in the text of no emitted item, whatever follows it.
\* Stated of the input's first character.
C16_DroppedInNoItem ==
    DroppedFirst =>
        \A i \in 1..Len(Emitted) :
            ~Contains(Emitted[i].Value, SubSeq(input, 1, FirstRune.n))

\* the dropped character is in the text of the TEXT item of the letter behind it
C16_DroppedInText ==
    /\ input = <<"<F0>", "<9F>", "<98>", "<80>", "a">>
    /\ returned # <<>>
    /\ returned[1] = Item("TEXT", 0, input)

\* the item type Math emits for an arithmetic symbol
MathType(c) == IF c = "+" THEN "PLUS" ELSE IF c = "-" THEN "MINUS" ELSE "MULT"

\* the input begins with an arithmetic symbol that Action routes to Math: a
\* '/' is one unless '/' or '*' follows it
ArithFirst ==
    /\ pc # "off"
    /\ input # <<>>
    /\ input[1] \in {"*", "/", "+", "-"}
    /\ ~(input[1] = "/" /\ Len(input) > 1 /\ input[2] \in {"/", "*"})

\* the scan of the input is over: Next has returned an item to its caller,
\* or a panic has ended it
ScanOver == pc = "panic" \/ (pc = "idle" /\ returned # <<>>)

\* exactly one item is emitted for the symbol at offset 0, of its type and
\* with the symbol as its text
OneItemOfFirst ==
    /\ pc # "panic"
    /\ Emitted # <<>>
    /\ Emitted[1] = Item(MathType(input[1]), 0, <<input[1]>>)
    /\ \A i \in 2..Len(Emitted) : Emitted[i].Pos > 0 \/ IsEnd(Emitted[i])

\* C17: every arithmetic symbol routed to Math produces exactly one item
\* whose text is that symbol ('*' and '/' a multiply item, '+' a plus item,
\* '-' a minus item), whatever follows it: a one-byte character, a
\* multi-byte character or the end of the input.  Stated of the input's
\* first character.
C17_MathEmitsSymbol == (ArithFirst /\ ScanOver) => OneItemOfFirst

\* '/' at the end of the input: the scan ends with the end item alone
C17_SlashAtEndNoItem ==
    /\ input = <<"/">>
    /\ pc = "idle"
    /\ returned = <<Item("ItemEOF", 0, <<>>)>>

\* the input begins with the name n
BeginsWith(n) == pc # "off" /\ HasPrefix(input, n)

\* C18: for every name in the builtin list of Text, an input beginning with
\* that name yields one command item whose text is the whole name; no
\* shorter recognised name (sprite-map, sprite) shadows a longer one.
C18_WholeNameIsCommand ==
    \A i \in 1..Len(cmds) :
        (BeginsWith(cmds[i]) /\ ScanOver) =>
            /\ pc # "panic"
            /\ Emitted[1] = Item("CMD", 0, cmds[i])

\* C18 for the names of the list other than sprite-map-name
C18_WholeNameUnlessMapName ==
    \A i \in 1..Len(cmds) :
        (cmds[i] # sSpriteMap \o sDash \o sName /\ BeginsWith(cmds[i]) /\ ScanOver) =>
            /\ pc # "panic"
            /\ Emitted[1] = Item("CMD", 0, cmds[i])

\* sprite-map-name is cut at sprite-map
C18_MapNameShadowed ==
    /\ input = sSpriteMap \o sDash \o sName
    /\ ScanOver
    /\ Emitted[1] = Item("CMDVAR", 0, sSpriteMap)

\* Paren is about to read a "(" that no '$' follows
ParenAtOpen ==
    /\ pc = "Paren"
    /\ 0 <= pos /\ pos < Len(input)
    /\ input[pos + 1] = "("
    /\ ~(pos + 1 < Len(input) /\ input[pos + 2] = "$")

\* the most recently emitted item is image-height or image-width
LastIsImageSize ==
    /\ Emitted # <<>>
    /\ Emitted[Len(Emitted)].Value \in {sImageHeight, sImageWidth}

\* C19: after a "(" that no '$' follows, the content is scanned in File mode
\* exactly when the most recently emitted item has the text image-height or
\* image-width; in every other case, also when the paren is the first item
\* and none precedes it, a left-paren item is emitted and the dispatch state
\* goes on.
C19_ParenFileMode ==
    [][ ParenAtOpen =>
            /\ items' = Append(items, Item("LPAREN", pos, <<"(">>))
            /\ pc' = IF LastIsImageSize THEN "File" ELSE "Action" ]_vars

\* C19 where an item precedes the paren
C19_ParenFileModeAfterItem ==
    [][ (ParenAtOpen /\ Emitted # <<>>) =>
            /\ items' = Append(items, Item("LPAREN", pos, <<"(">>))
            /\ pc' = IF LastIsImageSize THEN "File" ELSE "Action" ]_vars

\* the paren as the first item: the scan has ended in a panic and Next
\* returns nothing
C19_FirstParenPanics ==
    /\ input = <<"(">>
    /\ pc = "panic"
    /\ returned = <<>>

\* File mode entered behind image-width
C19_FileModeReached ==
    /\ pc = "File"
    /\ HasPrefix(input, sImageWidth \o <<"(">>)
    /\ Emitted = <<Item("CMD", 0, sImageWidth), Item("LPAREN", Len(sImageWidth), <<"(">>)>>

\* C26: in every reachable state of the scanner, for every input,
\* 0 <= start <= pos <= len(input), so that no state reads or slices the
\* input outside its bounds, also after Action's backtrack on a '/' that
\* opens no comment.
C26_CursorInBounds ==
    pc # "off" =>
        /\ pc # "panic"
        /\ 0 <= start /\ start <= pos /\ pos <= Len(input)

\* the cursor never passes the end of the input
C26_CursorNotPastEnd == pc # "off" => pos <= Len(input)

\* behind the '/' of "/é" the cursor stands in front of the input
C26_CursorBeforeInput ==
    /\ input = <<"/", "<C3>", "<A9>">>
    /\ pos = -1

\* an end-of-stream item has been emitted
EofEmitted == \E i \in 1..Len(Emitted) : Emitted[i].Type = "ItemEOF"

\* the character 0x04, the value of the constant EOF, is in the input
HasSentinel == \E i \in 1..Len(input) : input[i] = EOF

\* C27: the end-of-stream item is produced only when the cursor has reached
\* the end of the input: no character inside the input, the character 0x04
\* in particular, ends the scan early or leaves later input unscanned.
C27_EofOnlyAtEnd ==
    (pc # "off" /\ EofEmitted) => pos = Len(input)

\* C27 for the inputs without the character 0x04
C27_EofAtEndWithoutSentinel ==
    (pc # "off" /\ EofEmitted /\ ~HasSentinel) => pos = Len(input)

\* the scan of "\x04a" has ended at offset 1 with the letter unread
C27_EndedAtSentinel ==
    /\ input = <<"<04>", "a">>
    /\ state = "nil"
    /\ pos = 1
    /\ Emitted = <<Item("ItemEOF", 0, <<>>)>>

(***************************************************************************)
(* The selector helpers of package ast: parent injection and the merge of  *)
(* comma groups.                                                           *)
(***************************************************************************)
MaxAlts == 2        \* a parent value has at most this many alternatives
MaxNodes == 2       \* an injection has at most this many child fragments
MaxLefts == 7       \* the left list of a merge has at most this many elements
MaxRights == 4      \* the right list of a merge has at most this many elements

amper == <<"&">>
gdelim == <<",", " ">>

\* how a call ends: with a value, or in a panic
Return(v) == [kind |-> "return", value |-> v, err |-> ""]
PanicWith(e) == [kind |-> "panic", value |-> <<>>, err |-> e]

\* the inner statement of ghettoResolvedParentInject's loops
InjectOne(delim, part, node) ==
    IF Contains(node, amper) THEN Replace(node, amper, part)
    ELSE part \o delim \o node

RECURSIVE InjectNodes(_, _, _, _)
\* the loop over nodes, from index j on, for one element of parts
InjectNodes(delim, part, nodes, j) ==
    IF j > Len(nodes) THEN <<>>
    ELSE <<InjectOne(delim, part, nodes[j])>> \o InjectNodes(delim, part, nodes, j + 1)

RECURSIVE InjectParts(_, _, _, _)
\* the loop over parts, from index i on
InjectParts(delim, parts, nodes, i) ==
    IF i > Len(parts) THEN <<>>
    ELSE InjectNodes(delim, parts[i], nodes, 1) \o InjectParts(delim, parts, nodes, i + 1)

RECURSIVE InjectPartsOf(_, _, _, _)
\* the loops nested the other way round: for each node, every element of parts
InjectPartsOf(delim, parts, node, i) ==
    IF i > Len(parts) THEN <<>>
    ELSE <<InjectOne(delim, parts[i], node)>> \o InjectPartsOf(delim, parts, node, i + 1)

RECURSIVE InjectChildMajor(_, _, _, _)
InjectChildMajor(delim, parts, nodes, j) ==
    IF j > Len(nodes) THEN <<>>
    ELSE InjectPartsOf(delim, parts, nodes[j], 1) \o InjectChildMajor(delim, parts, nodes, j + 1)

\* ghettoResolvedParentInject with the loop over nodes outside the loop over parts
ghettoInjectChildMajor(delim, pval, nodes) ==
    IF Len(pval) = 0 THEN Join(nodes, gdelim)
    ELSE Join(InjectChildMajor(delim, Split(pval, gdelim), nodes, 1), gdelim)

\* ghettoResolvedParentInject without its test for an empty parent value
ghettoInjectNoEmptyTest(delim, pval, nodes) ==
    Join(InjectParts(delim, Split(pval, gdelim), nodes, 1), gdelim)

ghettoResolvedParentInject(delim, pval, nodes) ==
    IF Len(pval) = 0 THEN Join(nodes, gdelim)
    ELSE Join(InjectParts(delim, Split(pval, gdelim), nodes, 1), gdelim)

\* parent is <<>> for a nil *SelStmt, and <<p>> for a statement p
ghettoParentInject(delim, parent, nodes) ==
    LET pval == IF parent # <<>> THEN parent[1].Resolved.Value ELSE <<>>
    IN  ghettoResolvedParentInject(delim, pval, nodes)

\* math.Remainder(float64(x), float64(y)) for integers x >= 0 and y > 0: the
\* IEEE 754 remainder x - n*y, n the integer nearest to x/y, the even one
\* at a tie
Remainder(x, y) ==
    LET q == x \div y
        r == x % y
    IN  IF 2 * r < y THEN r
        ELSE IF 2 * r > y THEN r - y
        ELSE IF q % 2 = 0 THEN r
        ELSE r - y

RECURSIVE mergeLoopFromBack(_, _, _, _, _, _)
\* the loop of mergeLits taking the right alternatives from the last one
mergeLoopFromBack(delim, lefts, rights, mod, i, ss) ==
    IF i >= Len(lefts) THEN Return(Join(ss, delim))
    ELSE IF mod = 0 THEN PanicWith("runtime error: integer divide by zero")
    ELSE IF (i + 1) % mod # 0
    THEN mergeLoopFromBack(delim, lefts, rights, mod, i + 1, Append(ss, lefts[i + 1]))
    ELSE IF i \div mod >= Len(rights)
    THEN PanicWith("runtime error: index out of range")
    ELSE mergeLoopFromBack(delim, lefts, rights, mod, i + 1,
                           Append(Append(ss, lefts[i + 1]),
                                  rights[Len(rights) - (i \div mod)]))

RECURSIVE mergeLoop(_, _, _, _, _, _)
\* the loop of mergeLits from the 0-based index i on, ss collected so far
mergeLoop(delim, lefts, rights, mod, i, ss) ==
    IF i >= Len(lefts) THEN Return(Join(ss, delim))
    ELSE IF mod = 0 THEN PanicWith("runtime error: integer divide by zero")
    ELSE IF (i + 1) % mod # 0
    THEN mergeLoop(delim, lefts, rights, mod, i + 1, Append(ss, lefts[i + 1]))
    ELSE IF i \div mod >= Len(rights)
    THEN PanicWith("runtime error: index out of range")
    ELSE mergeLoop(delim, lefts, rights, mod, i + 1,
                   Append(Append(ss, lefts[i + 1]), rights[(i \div mod) + 1]))

mergeLits(delim, left, right) ==
    LET lefts == Split(left, delim)
        rights == Split(right, delim)
        ll == Len(lefts)
        lr == Len(rights)
    IN  IF Remainder(ll, lr) > 0 THEN PanicWith("Incompatible lengths")
        ELSE mergeLoop(delim, lefts, rights, ll \div lr, 0, <<>>)

\* ---- the selector expressions sel.switchExpr resolves
SelLit(v) == [kind |-> "BasicLit", Value |-> v]
UnaryExpr(op, x) == [kind |-> "UnaryExpr", Op |-> op, X |-> x]
BinaryExpr(op, x, y) == [kind |-> "BinaryExpr", Op |-> op, X |-> x, Y |-> y]

\* parseBackRef, of the resolved parent's value pval and the literal in
parseBackRef(delim, pval, in) ==
    IF in.Value = amper THEN pval
    ELSE ghettoResolvedParentInject(delim, pval, <<in.Value>>)

\* the delimiter joinBinary and switchExpr make of an operator
OpDelim(op) == IF op = "," THEN <<",", " ">> ELSE <<" ", op, " ">>

\* switchExpr of a *UnaryExpr
switchUnary(parent, v) ==
    IF parent = <<>> THEN PanicWith("runtime error: invalid memory address or nil pointer dereference")
    ELSE IF v.X.kind # "BasicLit" THEN PanicWith("interface conversion")
    ELSE Return(parseBackRef(<<" ", v.Op, " ">>, parent[1].Resolved.Value, v.X))

RECURSIVE switchExpr(_, _)
\* sel.switchExpr, with sel.joinBinary for a *BinaryExpr; parent is s.parent
switchExpr(parent, expr) ==
    IF expr.kind = "BasicLit"
    THEN Return(ghettoParentInject(<<" ">>, parent, <<expr.Value>>))
    ELSE IF expr.kind = "UnaryExpr" THEN switchUnary(parent, expr)
    ELSE LET delim == OpDelim(expr.Op)
             unx == expr.X.kind = "UnaryExpr"
             uny == expr.Y.kind = "UnaryExpr"
             x == switchExpr(parent, expr.X)
             y == switchExpr(parent, expr.Y)
         IN  IF x.kind = "panic" THEN x
             ELSE IF y.kind = "panic" THEN y
             ELSE IF unx /\ uny
             THEN Return(ghettoResolvedParentInject(delim, x.value, <<y.value>>))
             ELSE IF unx THEN switchExpr(parent, UnaryExpr(expr.Op, expr.Y))
             ELSE IF expr.Op = "," THEN mergeLits(delim, x.value, y.value)
             ELSE Return(x.value \o delim \o y.value)

(***************************************************************************)
(* The calls made of the selector helpers.                                 *)
(***************************************************************************)
DigitChars == <<"0", "1", "2", "3", "4", "5", "6", "7", "8", "9">>

RECURSIVE Itoa(_)
\* the decimal text of n >= 0
Itoa(n) ==
    IF n < 10 THEN <<DigitChars[n + 1]>>
    ELSE Itoa(n \div 10) \o <<DigitChars[(n % 10) + 1]>>

Alts == {<<"a">>, <<"b">>, <<".", "p", " ", "q">>}
Children == {<<".", "x">>, <<"&", ":", "h", "o", "v", "e", "r">>, <<"&", " ", "+", " ", "&">>}
Delims == {<<" ">>, <<" ", ">", " ">>}

PVals == {Join(f, gdelim) : f \in UNION {[1..n -> Alts] : n \in 0..MaxAlts}}
NodeLists == UNION {[1..n -> Children] : n \in 1..MaxNodes}
Parents == {<<>>} \cup {<<[Resolved |-> [Value |-> v]]>> : v \in PVals}

\* the lists 1, 3, 5, ... and 2, 4, 6, ... of n elements, joined by ", "
OddList(n) == Join([i \in 1..n |-> Itoa(2 * i - 1)], gdelim)
EvenList(n) == Join([i \in 1..n |-> Itoa(2 * i)], gdelim)

Call(fn, delim, parent, pval, nodes, left, right) ==
    [fn |-> fn, delim |-> delim, parent |-> parent, pval |-> pval,
     nodes |-> nodes, left |-> left, right |-> right]

\* the operands of a binary combinator: literals, unary combinators, and
\* binary combinators of those
SelLits == {SelLit(<<".", "x">>), SelLit(<<".", "y">>)}
Unaries == {UnaryExpr(">", SelLit(<<".", "x">>)), UnaryExpr("+", SelLit(<<".", "y">>)),
            UnaryExpr("&", SelLit(amper))}
Atoms == SelLits \cup Unaries
Nested == {BinaryExpr(">", x, y) : x \in Atoms, y \in Atoms}
BinaryExprs ==
    {BinaryExpr(op, x, y) :
        op \in {">", "~", "+"}, x \in Atoms \cup Nested, y \in Atoms \cup Nested}

\* a call of switchExpr on expr by a sel whose parent is parent
ExprCall(parent, expr) ==
    [fn |-> "switchExpr", delim |-> <<>>, parent |-> parent, pval |-> <<>>,
     nodes |-> <<>>, left |-> <<>>, right |-> <<>>, expr |-> expr]

Calls ==
    {Call("ghettoResolvedParentInject", d, <<>>, v, ns, <<>>, <<>>) :
        d \in Delims, v \in PVals, ns \in NodeLists}
    \cup
    {Call("ghettoParentInject", d, p, <<>>, ns, <<>>, <<>>) :
        d \in Delims, p \in Parents, ns \in NodeLists}
    \cup
    {Call("mergeLits", gdelim, <<>>, <<>>, <<>>, OddList(n), EvenList(k)) :
        n \in 1..MaxLefts, k \in 1..MaxRights}
    \cup
    {ExprCall(p, e) : p \in Parents, e \in BinaryExprs}

NotYet == [kind |-> "none", value |-> <<>>, err |-> ""]

SelInit ==
    /\ selCall \in Calls
    /\ selRet = NotYet
    /\ LexIdle /\ GenIdle

CallResolvedParentInject ==
    /\ selRet = NotYet
    /\ selCall.fn = "ghettoResolvedParentInject"
    /\ selRet' = Return(ghettoResolvedParentInject(selCall.delim, selCall.pval,
                                                   selCall.nodes))
    /\ UNCHANGED <<selCall, lexvars, genvars>>

CallParentInject ==
    /\ selRet = NotYet
    /\ selCall.fn = "ghettoParentInject"
    /\ selRet' = Return(ghettoParentInject(selCall.delim, selCall.parent,
                                           selCall.nodes))
    /\ UNCHANGED <<selCall, lexvars, genvars>>

CallMergeLits ==
    /\ selRet = NotYet
    /\ selCall.fn = "mergeLits"
    /\ selRet' = mergeLits(selCall.delim, selCall.left, selCall.right)
    /\ UNCHANGED <<selCall, lexvars, genvars>>

CallSwitchExpr ==
    /\ selRet = NotYet
    /\ selCall.fn = "switchExpr"
    /\ selRet' = switchExpr(selCall.parent, selCall.expr)
    /\ UNCHANGED <<selCall, lexvars, genvars>>

SelNext ==
    \/ CallResolvedParentInject
    \/ CallParentInject
    \/ CallMergeLits
    \/ CallSwitchExpr

SelSpec == SelInit /\ [][SelNext]_vars

(***************************************************************************)
(* Claims about the selector helpers.                                      *)
(***************************************************************************)
\* alternative k (from 1) of the parent-major, child-minor pairing of parts
\* with nodes
Pairing(delim, parts, nodes, k) ==
    LET m == Len(nodes)
        p == parts[((k - 1) \div m) + 1]
        c == nodes[((k - 1) % m) + 1]
    IN  IF \E x \in 1..Len(c) : c[x] = "&"
        THEN Replace(c, amper, p)
        ELSE p \o delim \o c

Injected ==
    /\ selRet.kind = "return"
    /\ selCall.fn = "ghettoResolvedParentInject"
    /\ selCall.pval # <<>>

\* C5: injecting a non-empty parent value with alternatives p1..pn into the
\* fragments c1..cm returns the n*m pairings joined by ", ", parent-major and
\* child-minor, a fragment with '&' having it replaced by the parent and any
\* other being parent + delimiter + fragment; "a, b" with ".x" is
\* "a .x, b .x" and with "&:hover" is "a:hover, b:hover".
C5_CartesianInject ==
    Injected =>
        LET parts == Split(selCall.pval, gdelim)
            n == Len(parts)
            m == Len(selCall.nodes)
        IN  /\ selRet.value =
                  Join([k \in 1..(n * m) |->
                           Pairing(selCall.delim, parts, selCall.nodes, k)], gdelim)
            /\ (selCall.pval = <<"a", ",", " ", "b">> /\ selCall.delim = <<" ">>)
                  => /\ selCall.nodes = <<<<".", "x">>>> => selRet.value = <<"a", " ", ".", "x", ",", " ", "b", " ", ".", "x">>
                     /\ selCall.nodes = <<<<"&", ":", "h", "o", "v", "e", "r">>>> => selRet.value = <<"a", ":", "h", "o", "v", "e", "r", ",", " ", "b", ":", "h", "o", "v", "e", "r">>

C5_Witness ==
    /\ Injected
    /\ selCall.pval = <<"a", ",", " ", "b">>
    /\ selCall.delim = <<" ">>
    /\ selCall.nodes = <<<<".", "x">>, <<"&", ":", "h", "o", "v", "e", "r">>>>
    /\ selRet.value = <<"a", " ", ".", "x", ",", " ", "a", ":", "h", "o", "v", "e", "r", ",", " ", "b", " ", ".", "x", ",", " ", "b", ":", "h", "o", "v", "e", "r">>

Unparented ==
    /\ selRet.kind = "return"
    /\ Len(selCall.nodes) = 1
    /\ \/ /\ selCall.fn = "ghettoParentInject"
          /\ \/ selCall.parent = <<>>
             \/ selCall.parent[1].Resolved.Value = <<>>
       \/ /\ selCall.fn = "ghettoResolvedParentInject"
          /\ selCall.pval = <<>>

\* C6: resolving one selector literal with no parent statement, or with an
\* empty parent value, returns the literal's text unchanged.
C6_UnparentedUnchanged == Unparented => selRet.value = selCall.nodes[1]

C6_Witness ==
    /\ Unparented
    /\ selCall.fn = "ghettoParentInject"
    /\ selCall.parent = <<>>
    /\ selCall.nodes = <<<<"&", ":", "h", "o", "v", "e", "r">>>>
    /\ selRet.value = <<"&", ":", "h", "o", "v", "e", "r">>

Merged(left, right) ==
    /\ selRet.kind # "none"
    /\ selCall.fn = "mergeLits"
    /\ selCall.left = left
    /\ selCall.right = right

\* C7: merging the left alternatives 1, 3 with the right alternative 2 gives
\* 1, 2, 3, and merging 1, 3 with 2, 4 gives 1, 2, 3, 4.
C7_MergeExamples ==
    /\ Merged(<<"1", ",", " ", "3">>, <<"2">>) => selRet = Return(<<"1", ",", " ", "2", ",", " ", "3">>)
    /\ Merged(<<"1", ",", " ", "3">>, <<"2", ",", " ", "4">>) => selRet = Return(<<"1", ",", " ", "2", ",", " ", "3", ",", " ", "4">>)

\* C8: a merge of L left with R right alternatives, L no exact multiple of R,
\* reports an error and returns no merged result.  Any panic is taken for the
\* report here, the run-time ones (index out of range, division by zero)
\* included, so that only a returned result violates the formula.
C8_UnevenIsError ==
    (/\ selRet.kind # "none"
     /\ selCall.fn = "mergeLits"
     /\ Len(Split(selCall.left, gdelim)) % Len(Split(selCall.right, gdelim)) # 0)
        => selRet.kind = "panic"

\* the alternatives of s that are among those of list, in the order of s
Among(s, list) ==
    LET in(x) == \E k \in 1..Len(list) : list[k] = x IN SelectSeq(s, in)

\* C20: when the number L of left alternatives is an exact multiple of the
\* number R of right alternatives, the merge returns every alternative of
\* both lists exactly once, L + R in all, and keeps the order the
\* alternatives have within each list.
C20_MergeKeepsAll ==
    LET lefts == Split(selCall.left, gdelim)
        rights == Split(selCall.right, gdelim)
        res == Split(selRet.value, gdelim)
    IN  (/\ selRet.kind # "none"
         /\ selCall.fn = "mergeLits"
         /\ Len(lefts) % Len(rights) = 0)
            => /\ selRet.kind = "return"
               /\ Len(res) = Len(lefts) + Len(rights)
               /\ Among(res, lefts) = lefts
               /\ Among(res, rights) = rights

\* four left alternatives merged with two right ones
C20_Witness ==
    /\ Merged(OddList(4), EvenList(2))
    /\ selRet = Return(Join(<<<<"1">>, <<"3">>, <<"2">>, <<"5">>, <<"7">>, <<"4">>>>, gdelim))

\* a binary combinator has been resolved whose operands both resolve
JoinedBinary ==
    /\ selRet.kind # "none"
    /\ selCall.fn = "switchExpr"
    /\ switchExpr(selCall.parent, selCall.expr.X).kind = "return"
    /\ switchExpr(selCall.parent, selCall.expr.Y).kind = "return"

BothUnary == selCall.expr.X.kind = "UnaryExpr" /\ selCall.expr.Y.kind = "UnaryExpr"

\* resolved(X), the operator between single spaces, resolved(Y)
PlainJoin ==
    switchExpr(selCall.parent, selCall.expr.X).value
        \o <<" ", selCall.expr.Op, " ">>
        \o switchExpr(selCall.parent, selCall.expr.Y).value

\* C21: resolving a binary combinator with operator >, ~ or + and operands X
\* and Y gives resolved(X), the operator between single spaces, resolved(Y),
\* for every combination of operand kinds but that of two unary combinators;
\* the resolution of X is never left out.
C21_BinaryJoinsBoth ==
    (JoinedBinary /\ ~BothUnary) => selRet = Return(PlainJoin)

\* C21 where X is no unary combinator
C21_JoinsUnlessUnaryX ==
    (JoinedBinary /\ selCall.expr.X.kind # "UnaryExpr") => selRet = Return(PlainJoin)

\* `> .x` joined by + with `.y` under the parent a: the result is a + .y
C21_UnaryXLeftOut ==
    /\ selCall.fn = "switchExpr"
    /\ selCall.parent = <<[Resolved |-> [Value |-> <<"a">>]]>>
    /\ selCall.expr = BinaryExpr("+", UnaryExpr(">", SelLit(<<".", "x">>)), SelLit(<<".", "y">>))
    /\ selRet = Return(<<"a", " ", "+", " ", ".", "y">>)

(***************************************************************************)
(* The code generator of package compiler: Context and its walk over the   *)
(* parsed file.                                                            *)
(***************************************************************************)
MaxChain == 2       \* an identifier is bound through at most this many others
MaxVals == 2        \* a quoted value list holds at most this many values
MaxStmts == 5       \* a file holds at most this many statements in all
MaxDepth == 2       \* blocks nest at most this deep

\* ---- Scope (scope.go), as the specification's section 4.3 describes it: a
\* ---- chain of frames, the innermost last, each counting the rules
\* ---- declared in it
empty == <<>>
NewScope(s) == Append(s, [rules |-> 0])
CloseScope(s) == IF s = empty THEN s ELSE SubSeq(s, 1, Len(s) - 1)
RuleLen(s) == IF s = empty THEN 0 ELSE s[Len(s)].rules
RuleAdd(s) == IF s = empty THEN s ELSE [s EXCEPT ![Len(s)].rules = @ + 1]

\* ---- the nodes of package ast the generator prints
Node(kind, resolved, name, values, text, list) ==
    [kind |-> kind, Resolved |-> resolved, Name |-> name, Values |-> values,
     Text |-> text, List |-> list]
BasicLit(kind, value) == [kind |-> "BasicLit", Kind |-> kind, Value |-> value]
RuleSpec(name, values) == Node("RuleSpec", <<>>, name, values, <<>>, <<>>)
AstComment(text) == Node("Comment", <<>>, <<>>, <<>>, text, <<>>)
BlockStmt(list) == Node("BlockStmt", <<>>, <<>>, <<>>, <<>>, list)
\* a selector statement: its resolved selector and the statements of its Body
SelStmt(resolved, body) ==
    Node("SelStmt", <<BasicLit("STRING", resolved)>>, <<>>, <<>>, <<>>, body)

RECURSIVE Spaces(_)
Spaces(n) == IF n <= 0 THEN <<>> ELSE <<" ">> \o Spaces(n - 1)

\* Context.out: v behind the indent of the level, a v that starts with a
\* newline as it is
out(c, v) ==
    IF v # <<>> /\ v[1] = "\n" THEN [c EXCEPT !.buf = @ \o v]
    ELSE [c EXCEPT !.buf = @ \o Spaces(c.level * 2) \o v]

\* blockIntro with the separating newline at every level
blockIntroAnyLevel(c) ==
    IF ~c.firstRule THEN [c EXCEPT !.buf = @ \o <<"\n">>]
    ELSE LET c1 == [c EXCEPT !.firstRule = FALSE]
             c2 == IF Len(c1.buf) > 0
                   THEN [c1 EXCEPT !.buf = @ \o <<"\n">>]
                   ELSE c1
             sel == IF c2.activeSel # <<>> THEN c2.activeSel[1].Value
                    ELSE <<"M", "I", "S", "S", "I", "N", "G">>
         IN  out(c2, sel \o <<" ", "{", "\n">>)

blockIntro(c) ==
    IF ~c.firstRule THEN [c EXCEPT !.buf = @ \o <<"\n">>]
    ELSE LET c1 == [c EXCEPT !.firstRule = FALSE]
             c2 == IF Len(c1.buf) > 0 /\ c1.level = 0
                   THEN [c1 EXCEPT !.buf = @ \o <<"\n">>]
                   ELSE c1
             sel == IF c2.activeSel # <<>> THEN c2.activeSel[1].Value
                    ELSE <<"M", "I", "S", "S", "I", "N", "G">>
         IN  out(c2, sel \o <<" ", "{", "\n">>)

\* blockOutro closing the brace on a line of its own
blockOutroOwnLine(c) ==
    IF c.firstRule THEN c
    ELSE [c EXCEPT !.firstRule = TRUE, !.buf = @ \o <<"\n", "}", "\n">>]

\* blockOutro without its test of firstRule
blockOutroAlways(c) == [c EXCEPT !.firstRule = TRUE, !.buf = @ \o <<" ", "}", "\n">>]

blockOutro(c) ==
    IF c.firstRule THEN c
    ELSE [c EXCEPT !.firstRule = TRUE, !.buf = @ \o <<" ", "}", "\n">>]

\* ---- the expressions of package ast the evaluator resolves.  An
\* ---- identifier's Obj is <<>> for nil and <<d>> for an object declared by d
Ident(name, obj) == [kind |-> "Ident", Name |-> name, Obj |-> obj]
ValueSpec(values) == [kind |-> "ValueSpec", Values |-> values]
AssignStmt(rhs) == [kind |-> "AssignStmt", Rhs |-> rhs]
CallExpr(fun) == [kind |-> "CallExpr", Fun |-> fun]
ParenExpr(x) == [kind |-> "ParenExpr", X |-> x]
\* a *ast.BasicLit that is nil
NilLit == [kind |-> "BasicLit", Kind |-> "nil", Value |-> <<>>]

\* fmt.Sprintf("%s", e) of an expression, as its text
FormatExpr(e) ==
    IF e.kind = "Ident" THEN e.Name
    ELSE IF e.kind = "BasicLit" THEN e.Value
    ELSE <<>>

joinLits(a, sep) == Join([i \in 1..Len(a) |-> a[i].Value], sep)

\* ---- declarations that refer to each other: an Obj.Decl is a node, or
\* ---- Ptr(a) for the node at the address a of the heap; Heap is the heap
\* ---- of the files the generator is run on
Ptr(a) == [kind |-> "Ptr", at |-> a]

Heap ==
    [ p1 |-> Ident(<<"$", "y">>, <<Ptr("p2")>>),
      p2 |-> Ident(<<"$", "x">>, <<Ptr("p1")>>),
      p3 |-> Ident(<<"$", "w">>, <<Ptr("p3")>>),
      p4 |-> AssignStmt(<<Ident(<<"$", "z">>, <<Ptr("p4")>>)>>),
      p5 |-> AssignStmt(<<BasicLit("STRING", <<"1", "p", "x">>)>>),
      p6 |-> Ident(<<"$", "v">>, <<Ptr("p5")>>) ]

\* ident.Obj.Decl, for an ident.Obj that is not nil
Decl(ident) ==
    IF ident.Obj[1].kind = "Ptr" THEN heap[ident.Obj[1].at] ELSE ident.Obj[1]

\* the calls that can be nested without a declaration being entered twice;
\* a deeper nesting never ends and overflows the goroutine's stack
Hops == 2 * Cardinality(DOMAIN heap) + MaxChain + 2

\* the one element of a set of one element: a callee is handed the values
\* of its arguments, each evaluated once at the call
The(S) == CHOOSE x \in S : TRUE

RECURSIVE resolveAssignFrom(_, _)
\* resolveAssign, n calls deep: [lits, panic, overflow]
resolveAssignFrom(astmt, n) ==
    LET step(acc, rhs) ==
            IF acc.panic THEN acc
            ELSE IF rhs.kind = "Ident"
            THEN IF rhs.Obj = <<>> \/ Decl(rhs).kind # "AssignStmt"
                 THEN [acc EXCEPT !.panic = TRUE]
                 ELSE [The({resolveAssignFrom(d, m) : d \in {Decl(rhs)}, m \in {n + 1}})
                           EXCEPT !.lits = acc.lits \o @]
            ELSE IF rhs.kind = "CallExpr"
            THEN IF \/ rhs.Fun.kind # "Ident"
                    \/ rhs.Fun.Obj = <<>>
                    \/ Decl(rhs.Fun).kind # "BasicLit"
                 THEN [acc EXCEPT !.panic = TRUE]
                 ELSE [acc EXCEPT !.lits = Append(@, Decl(rhs.Fun))]
            ELSE IF rhs.kind = "BasicLit"
            THEN [acc EXCEPT !.lits = Append(@, rhs)]
            ELSE [acc EXCEPT !.panic = TRUE]
        loop[i \in 0..Len(astmt.Rhs)] ==
            IF i = 0 THEN [lits |-> <<>>, panic |-> FALSE, overflow |-> FALSE]
            ELSE step(loop[i - 1], astmt.Rhs[i])
    IN  IF n > Hops THEN [lits |-> <<>>, panic |-> TRUE, overflow |-> TRUE]
        ELSE loop[Len(astmt.Rhs)]

resolveAssign(astmt) == resolveAssignFrom(astmt, 1)

\* the loop of resolveIdent over the values of a *ast.ValueSpec: [s, panic]
ValueSpecStrings(vv) ==
    LET step(acc, val) ==
            IF acc.panic THEN acc
            ELSE IF val.kind = "Ident"
            THEN IF val.Obj # <<>>
                 THEN IF Decl(val).kind # "ValueSpec"
                      THEN [acc EXCEPT !.panic = TRUE]
                      ELSE [acc EXCEPT !.s = @ \o
                               [j \in 1..Len(Decl(val).Values) |->
                                    FormatExpr(Decl(val).Values[j])]]
                 ELSE [acc EXCEPT !.s = Append(@, FormatExpr(val))]
            ELSE IF val.kind # "BasicLit"
            THEN [acc EXCEPT !.panic = TRUE]
            ELSE IF Len(val.Value) > 0
            THEN [acc EXCEPT !.s = Append(@, val.Value)]
            ELSE acc
        loop[i \in 0..Len(vv.Values)] ==
            IF i = 0 THEN [s |-> <<>>, panic |-> FALSE]
            ELSE step(loop[i - 1], vv.Values[i])
    IN  loop[Len(vv.Values)]

RECURSIVE resolveIdentFrom(_, _)
\* resolveIdent, n calls deep: [out, panic, overflow]
resolveIdentFrom(ident, n) ==
    IF n > Hops THEN [out |-> <<>>, panic |-> TRUE, overflow |-> TRUE]
    ELSE IF ident.Obj = <<>>
    THEN [out |-> ident.Name, panic |-> FALSE, overflow |-> FALSE]
    ELSE LET vv == Decl(ident) IN
         IF vv.kind = "Ident"
         THEN The({resolveIdentFrom(d, m) : d \in {vv}, m \in {n + 1}})
         ELSE IF vv.kind = "ValueSpec"
         THEN LET spec(r) ==
                      [out |-> Join(r.s, <<" ">>), panic |-> r.panic, overflow |-> FALSE]
              IN  spec(ValueSpecStrings(vv))
         ELSE IF vv.kind = "AssignStmt"
         THEN LET assigned(r) ==
                      [out |-> joinLits(r.lits, <<" ">>), panic |-> r.panic,
                       overflow |-> r.overflow]
              IN  assigned(The({resolveAssignFrom(d, m) : d \in {vv}, m \in {n + 1}}))
         ELSE IF vv.kind = "BasicLit"
         THEN [out |-> <<>>, panic |-> FALSE, overflow |-> FALSE]
         ELSE [out |-> ident.Name, panic |-> FALSE, overflow |-> FALSE]

resolveIdent(ident) == resolveIdentFrom(ident, 1)

\* what resolveExpr and simplifyExprs leave: the Context, the text, the error
\* returned ("" for nil) and whether the call panicked
Resolved(c, o, e, p) == [c |-> c, out |-> o, err |-> e, panic |-> p]

RECURSIVE resolveExpr(_, _)
RECURSIVE simplifyLoop(_, _, _, _)
RECURSIVE simplifyExprs(_, _)

resolveExpr(c, expr) ==
    IF expr.kind = "CallExpr"
    THEN IF \/ expr.Fun.kind # "Ident"
            \/ expr.Fun.Obj = <<>>
            \/ Decl(expr.Fun).kind # "BasicLit"
         THEN Resolved(c, <<>>, "", TRUE)
         ELSE IF Decl(expr.Fun) = NilLit
         THEN Resolved(c, <<>>, "call return was nil", FALSE)
         ELSE Resolved(c, Decl(expr.Fun).Value, "", FALSE)
    ELSE IF expr.kind = "ParenExpr"
    THEN LET inner(r) == Resolved([r.c EXCEPT !.err = r.err], r.out, "", r.panic)
         IN  inner(simplifyExprs(c, <<expr.X>>))
    ELSE IF expr.kind = "Ident"
    THEN LET named(r) == Resolved(c, r.out, "", r.panic)
         IN  named(resolveIdent(expr))
    ELSE IF expr.kind = "BasicLit"
    THEN IF expr.Kind = "VAR" THEN Resolved(c, <<>>, "", FALSE)
         ELSE Resolved(c, expr.Value, "", FALSE)
    ELSE Resolved(c, <<>>, "", TRUE)

\* the first loop of simplifyExprs, from exprs[i] on (i from 1): out is the
\* list sums
simplifyLoop(c, exprs, i, sums) ==
    IF i > Len(exprs) THEN Resolved(c, sums, "", FALSE)
    ELSE LET after(r) ==
                 IF r.panic \/ r.err # "" THEN Resolved(r.c, <<>>, r.err, r.panic)
                 ELSE simplifyLoop(r.c, exprs, i + 1, Append(sums, r.out))
         IN  after(resolveExpr(c, exprs[i]))

IsQString(e) == e.kind = "BasicLit" /\ e.Kind = "QSTRING"

simplifyExprs(c, exprs) ==
    LET joined(l) ==
            IF l.panic \/ l.err # "" THEN l
            ELSE IF exprs = <<>> THEN Resolved(l.c, <<>>, "", TRUE)
            ELSE LET n == Len(exprs)
                     first == IF IsQString(exprs[1]) THEN 1 ELSE 0
                     end == IF IsQString(exprs[n]) THEN n - 2 ELSE n
                 IN  IF first = 1
                     THEN IF end < 1
                          THEN Resolved(l.c, <<>>, "", TRUE)
                          ELSE Resolved(l.c, <<"\"">> \o Join(Slice(l.out, 1, end), <<" ">>)
                                                  \o <<"\"">>, "", FALSE)
                     ELSE Resolved(l.c, Join(l.out, <<" ">>), "", FALSE)
    IN  joined(simplifyLoop(c, exprs, 1, <<>>))

printComment(c, n) == out(blockIntro(c), <<" ", " ">> \o n.Text)

printSelStmt(c, n) == [c EXCEPT !.activeSel = n.Resolved]

printRuleSpec(c, n) ==
    LET c1 == blockIntro(c)
        c2 == [c1 EXCEPT !.scope = RuleAdd(@)]
        c3 == out(c2, <<" ", " ">> \o n.Name \o <<":", " ">>)
        printed(r) == [r.c EXCEPT !.err = r.err, !.buf = @ \o r.out \o <<";">>]
    IN  printed(simplifyExprs(c3, n.Values))

\* Visit of a *ast.BlockStmt, up to the walk of its statements
EnterBlockStmt(c) ==
    LET c1 == IF RuleLen(c.scope) > 0
              THEN [c EXCEPT !.level = @ + 1,
                             !.buf = IF ~c.firstRule THEN @ \o <<" ", "}", "\n">> ELSE @]
              ELSE c
    IN  [c1 EXCEPT !.scope = NewScope(@), !.firstRule = TRUE]

\* Visit of a *ast.BlockStmt, after the walk of its statements
LeaveBlockStmt(c) ==
    LET c1 == IF c.level > 0 THEN [c EXCEPT !.level = @ - 1] ELSE c
        c2 == [c1 EXCEPT !.scope = CloseScope(@)]
    IN  [blockOutro(c2) EXCEPT !.firstRule = TRUE]

(***************************************************************************)
(* The files the generator is run on, and its walk.                        *)
(***************************************************************************)
RuleRed == RuleSpec(<<"c", "o", "l", "o", "r">>, <<BasicLit("STRING", <<"r", "e", "d">>)>>)
RuleBlue == RuleSpec(<<"c", "o", "l", "o", "r">>, <<BasicLit("STRING", <<"b", "l", "u", "e">>)>>)
CommentC == AstComment(<<"/", "*", " ", "c", " ", "*", "/">>)
Leaves == {RuleRed, RuleBlue, CommentC}

\* the resolved selector of a block, by the number of blocks around it
SelNames == <<<<".", "a">>, <<".", "a", " ", ".", "b">>, <<".", "a", " ", ".", "b", " ", ".", "c">>, <<".", "a", " ", ".", "b", " ", ".", "c", " ", ".", "d">>>>

RECURSIVE Stmts(_, _)
\* the statement lists of at most n statements in all, for the body of a
\* block with lvl blocks around and including it
Stmts(n, lvl) ==
    IF n = 0 THEN {<<>>}
    ELSE {<<>>}
         \cup {<<l>> \o t : l \in Leaves, t \in Stmts(n - 1, lvl)}
         \cup (IF lvl >= MaxDepth THEN {}
               ELSE UNION {{<<SelStmt(SelNames[lvl + 1], b)>> \o t :
                               b \in Stmts(k, lvl + 1), t \in Stmts(n - 1 - k, lvl)} :
                           k \in 0..(n - 1)})

RECURSIVE Decls(_)
\* the top-level statement lists of at most n statements in all
Decls(n) ==
    IF n = 0 THEN {<<>>}
    ELSE {<<>>}
         \cup {<<CommentC>> \o t : t \in Decls(n - 1)}
         \cup UNION {{<<SelStmt(SelNames[1], b)>> \o t :
                         b \in Stmts(k, 1), t \in Decls(n - 1 - k)} :
                     k \in 0..(n - 1)}

\* ---- files with a property whose value is resolved: an identifier by
\* ---- what it is bound to, a call, a parenthesised expression
Lit1px == BasicLit("STRING", <<"1", "p", "x">>)
sX == <<"$", "x">>
sY == <<"$", "y">>

RECURSIVE Bindings(_)
\* the declarations an identifier's object can name, through at most n
\* further identifiers
Bindings(n) ==
    LET below == IF n = 0 THEN {} ELSE {Ident(sY, <<d>>) : d \in Bindings(n - 1)}
    IN  {Lit1px, ValueSpec(<<Lit1px>>), AssignStmt(<<Lit1px>>),
         ValueSpec(<<Ident(sY, <<>>)>>)}
        \cup below
        \cup {ValueSpec(<<i>>) : i \in below}
        \cup {AssignStmt(<<i>>) : i \in below}

CallNil == CallExpr(Ident(<<"f">>, <<NilLit>>))
Call1px == CallExpr(Ident(<<"f">>, <<Lit1px>>))

ValueExprs ==
    {Ident(sX, <<d>>) : d \in Bindings(MaxChain)}
    \cup {Ident(sX, <<Ptr(a)>>) : a \in DOMAIN Heap}
    \cup {Ident(sX, <<>>), CallNil, Call1px, ParenExpr(CallNil), ParenExpr(Lit1px)}

RuleWidth(e) == RuleSpec(<<"w", "i", "d", "t", "h">>, <<e>>)

\* a block with such a property, alone or before another property or a
\* comment, and alone or before another block
EvalDocs ==
    {<<SelStmt(SelNames[1], <<RuleWidth(e)>> \o rest)>> \o tail :
        e \in ValueExprs,
        rest \in {<<>>, <<RuleRed>>, <<CommentC>>},
        tail \in {<<>>, <<SelStmt(SelNames[1], <<RuleBlue>>)>>}}

\* a block holding two blocks one after the other, behind a property of its
\* own or not
SiblingDocs ==
    {<<SelStmt(SelNames[1], pre \o <<SelStmt(SelNames[2], <<r1>>),
                                      SelStmt(SelNames[2], <<r2>>)>>)>> :
        pre \in {<<>>, <<RuleRed>>}, r1 \in {RuleRed, RuleBlue}, r2 \in {RuleRed, RuleBlue}}

\* a block in a block in a block, each of the outer two with or without a
\* property of its own before the inner one, and the middle one with or
\* without a property behind it
DeepDocs ==
    {<<SelStmt(SelNames[1], pre \o
          <<SelStmt(SelNames[2], mid \o <<SelStmt(SelNames[3], <<RuleRed>>)>> \o post)>>)>> :
        pre \in {<<>>, <<RuleRed>>}, mid \in {<<>>, <<RuleRed>>},
        post \in {<<>>, <<RuleBlue>>}}

\* a block with a property whose value list is a quoted string: the values
\* between two quoted-string markers
QMark == BasicLit("QSTRING", <<"\"">>)
QVals == {BasicLit("STRING", <<"a">>), BasicLit("STRING", <<"b">>)}
QuotedDocs ==
    {<<SelStmt(SelNames[1],
          <<RuleSpec(<<"c", "o", "n", "t", "e", "n", "t">>, <<QMark>> \o vs \o <<QMark>>)>>)>> :
        vs \in UNION {[1..n -> QVals] : n \in 0..MaxVals}}

Docs == Decls(MaxStmts) \cup EvalDocs \cup SiblingDocs \cup DeepDocs \cup QuotedDocs

\* the walk's work: a node ast.Walk is still to be called on, or the rest of
\* Visit for a block whose statements have been walked.  ast.Walk is the
\* depth-first walk of the specification's section 4.4: it calls Visit on
\* the node and, unless Visit returns nil, walks the node's children in order
ToWalk(n) == [op |-> "Walk", node |-> n]
\* the rest of Visit for the block n; entered is the level Visit was called
\* at, which the code keeps nowhere
ToLeave(n, lvl) == [op |-> "Leave", node |-> n, entered |-> lvl]

\* Context.Init, and run up to the call of ast.Walk on the file
GenInit ==
    /\ doc \in Docs
    /\ heap = Heap
    /\ agenda = [i \in 1..Len(doc) |-> ToWalk(doc[i])]
    /\ ctx = [buf |-> <<>>, level |-> 0, firstRule |-> FALSE, activeSel |-> <<>>,
              err |-> "", scope |-> NewScope(empty)]
    /\ gpc = "walk"
    /\ ret = <<>>
    /\ LexIdle /\ SelIdle

Walking(kind) ==
    /\ gpc = "walk"
    /\ agenda # <<>>
    /\ Head(agenda).op = "Walk"
    /\ Head(agenda).node.kind = kind

\* Visit of a *ast.SelStmt, and ast.Walk going on to its Body
VisitSelStmt ==
    /\ Walking("SelStmt")
    /\ IF ctx.err # ""
       THEN agenda' = Tail(agenda) /\ ctx' = ctx
       ELSE /\ ctx' = printSelStmt(ctx, Head(agenda).node)
            /\ agenda' = <<ToWalk(BlockStmt(Head(agenda).node.List))>> \o Tail(agenda)
    /\ UNCHANGED <<doc, heap, gpc, ret, lexvars, selvars>>

\* Visit of a *ast.BlockStmt, as far as its loop over v.List
VisitBlockStmt ==
    /\ Walking("BlockStmt")
    /\ IF ctx.err # ""
       THEN agenda' = Tail(agenda) /\ ctx' = ctx
       ELSE LET b == Head(agenda).node IN
            /\ ctx' = EnterBlockStmt(ctx)
            /\ agenda' = [i \in 1..Len(b.List) |-> ToWalk(b.List[i])]
                             \o <<ToLeave(b, ctx.level)>> \o Tail(agenda)
    /\ UNCHANGED <<doc, heap, gpc, ret, lexvars, selvars>>

\* Visit of a *ast.BlockStmt, from the end of its loop over v.List
VisitBlockStmtEnd ==
    /\ gpc = "walk"
    /\ agenda # <<>>
    /\ Head(agenda).op = "Leave"
    /\ ctx' = LeaveBlockStmt(ctx)
    /\ agenda' = Tail(agenda)
    /\ UNCHANGED <<doc, heap, gpc, ret, lexvars, selvars>>

\* Visit of a *ast.RuleSpec; what ast.Walk visits below it prints nothing
VisitRuleSpec ==
    /\ Walking("RuleSpec")
    /\ agenda' = Tail(agenda)
    /\ IF ctx.err # ""
       THEN ctx' = ctx /\ gpc' = gpc
       ELSE /\ ctx' = printRuleSpec(ctx, Head(agenda).node)
            /\ gpc' = IF simplifyExprs(ctx, Head(agenda).node.Values).panic
                      THEN "panic" ELSE gpc
    /\ UNCHANGED <<doc, heap, ret, lexvars, selvars>>

\* Visit of a *ast.Comment
VisitComment ==
    /\ Walking("Comment")
    /\ agenda' = Tail(agenda)
    /\ ctx' = IF ctx.err # "" THEN ctx ELSE printComment(ctx, Head(agenda).node)
    /\ UNCHANGED <<doc, heap, gpc, ret, lexvars, selvars>>

\* Context.run after ast.Walk has returned
run ==
    /\ gpc = "walk"
    /\ agenda = <<>>
    /\ ctx' = IF Len(ctx.buf) > 0 /\ ctx.buf[Len(ctx.buf)] # "\n"
              THEN out(ctx, <<"\n">>)
              ELSE ctx
    /\ gpc' = "done"
    /\ ret' = <<[s |-> ctx'.buf, err |-> ""]>>
    /\ UNCHANGED <<doc, heap, agenda, lexvars, selvars>>

GenNext ==
    \/ VisitSelStmt
    \/ VisitBlockStmt
    \/ VisitBlockStmtEnd
    \/ VisitRuleSpec
    \/ VisitComment
    \/ run

GenSpec == GenInit /\ [][GenNext]_vars

(***************************************************************************)
(* Claims about the code generator.                                        *)
(***************************************************************************)
\* the file is one top-level block holding one property declaration
SingleRuleBlock ==
    /\ Len(doc) = 1
    /\ doc[1].kind = "SelStmt"
    /\ Len(doc[1].List) = 1
    /\ doc[1].List[1].kind = "RuleSpec"
    /\ Len(doc[1].List[1].Values) = 1
    /\ doc[1].List[1].Values[1].kind = "BasicLit"

\* the text of such a file's output up to and including the declaration's ';'
SingleRuleText ==
    doc[1].Resolved[1].Value \o <<" ", "{", "\n">> \o <<" ", " ">> \o doc[1].List[1].Name
        \o <<":", " ">> \o doc[1].List[1].Values[1].Value \o <<";">>

DocRed == <<SelStmt(<<".", "a">>, <<RuleRed>>)>>
DocNested == <<SelStmt(<<".", "a">>, <<SelStmt(<<".", "a", " ", ".", "b">>, <<RuleBlue>>)>>)>>

\* C9 as stated: the output of `sel { name: value; }` is `sel {`, the
\* declaration indented by two spaces, and `}` on a line of its own; that of
\* `.a { color: red; }` is ".a {\n  color: red;\n}\n".
C9_ClosedOnOwnLine ==
    (gpc = "done" /\ SingleRuleBlock) =>
        /\ ctx.buf = SingleRuleText \o <<"\n", "}", "\n">>
        /\ doc = DocRed => ctx.buf = <<".", "a", " ", "{", "\n", " ", " ", "c", "o", "l", "o", "r", ":", " ", "r", "e", "d", ";", "\n", "}", "\n">>

\* C9, amended: the output of `sel { name: value; }` is `sel {`, a newline,
\* the declaration indented by two spaces, then a space and `}` on the
\* declaration's line, and a newline; that of `.a { color: red; }` is
\* ".a {\n  color: red; }\n".
C9_ClosedOnRuleLine ==
    (gpc = "done" /\ SingleRuleBlock) =>
        /\ ctx.buf = SingleRuleText \o <<" ", "}", "\n">>
        /\ doc = DocRed => ctx.buf = <<".", "a", " ", "{", "\n", " ", " ", "c", "o", "l", "o", "r", ":", " ", "r", "e", "d", ";", " ", "}", "\n">>

C9_Witness ==
    /\ gpc = "done"
    /\ doc = DocRed
    /\ SingleRuleBlock
    /\ ctx.buf = <<".", "a", " ", "{", "\n", " ", " ", "c", "o", "l", "o", "r", ":", " ", "r", "e", "d", ";", " ", "}", "\n">>

RECURSIVE Count(_, _)
\* how often the byte ch is in s
Count(s, ch) ==
    IF s = <<>> THEN 0
    ELSE (IF Head(s) = ch THEN 1 ELSE 0) + Count(Tail(s), ch)

\* the block has a property declaration or a comment among its statements
HasDirect(b) ==
    \E i \in 1..Len(b.List) : b.List[i].kind \in {"RuleSpec", "Comment"}

RECURSIVE Enclosing(_)
\* the innermost block the walk is inside of, given the work left after the
\* current node: <<b>>, or <<>> at the top level
Enclosing(a) ==
    IF a = <<>> THEN <<>>
    ELSE IF Head(a).op = "Leave" THEN <<Head(a).node>>
    ELSE Enclosing(Tail(a))

\* C10: a block with no property declaration and no comment directly in it
\* emits no brace of its own.  Its Visit adds no '{'; it adds a '}' only on
\* entry and only to close the brace of an enclosing block that has a
\* declaration or comment of its own; and `.a { .b { color: blue; } }` comes
\* out as the inner block's single brace pair, ".a .b {\n  color: blue; }\n".
C10_NoBracesOfEmptyBlock ==
    [][ /\ (gpc = "walk" /\ agenda # <<>> /\ Head(agenda).op = "Leave"
                /\ ~HasDirect(Head(agenda).node))
            => /\ Count(ctx'.buf, "{") = Count(ctx.buf, "{")
               /\ Count(ctx'.buf, "}") = Count(ctx.buf, "}")
        /\ (Walking("BlockStmt") /\ ~HasDirect(Head(agenda).node))
            => /\ Count(ctx'.buf, "{") = Count(ctx.buf, "{")
               /\ Count(ctx'.buf, "}") # Count(ctx.buf, "}")
                     => /\ Enclosing(Tail(agenda)) # <<>>
                        /\ HasDirect(Enclosing(Tail(agenda))[1])
        /\ (gpc' = "done" /\ doc = DocNested) => ctx'.buf = <<".", "a", " ", ".", "b", " ", "{", "\n", " ", " ", "c", "o", "l", "o", "r", ":", " ", "b", "l", "u", "e", ";", " ", "}", "\n">>
      ]_vars

C10_Witness ==
    /\ gpc = "done"
    /\ doc = DocNested
    /\ ctx.buf = <<".", "a", " ", ".", "b", " ", "{", "\n", " ", " ", "c", "o", "l", "o", "r", ":", " ", "b", "l", "u", "e", ";", " ", "}", "\n">>
    /\ Count(ctx.buf, "{") = 1
    /\ Count(ctx.buf, "}") = 1

RECURSIVE DeclaredValue(_)
\* the value text a declaration gives a variable: a literal's text, and
\* through identifiers and assignments that of what they stand for
DeclaredValue(d) ==
    IF d.kind = "BasicLit" THEN d.Value
    ELSE IF d.kind = "Ident"
    THEN IF d.Obj = <<>> THEN d.Name ELSE DeclaredValue(Decl(d))
    ELSE IF d.kind = "ValueSpec"
    THEN Join([i \in 1..Len(d.Values) |-> DeclaredValue(d.Values[i])], <<" ">>)
    ELSE Join([i \in 1..Len(d.Rhs) |-> DeclaredValue(d.Rhs[i])], <<" ">>)

\* the file's first statement is a block whose first statement is a property
\* with one value
FirstRuleDoc ==
    /\ doc # <<>>
    /\ doc[1].kind = "SelStmt"
    /\ doc[1].List # <<>>
    /\ doc[1].List[1].kind = "RuleSpec"
    /\ Len(doc[1].List[1].Values) = 1

FirstValue == doc[1].List[1].Values[1]

\* the output begins with the block's selector line and the property with
\* the value text v
FirstRuleReads(v) ==
    HasPrefix(ctx.buf, doc[1].Resolved[1].Value \o <<" ", "{", "\n", " ", " ">>
                           \o doc[1].List[1].Name \o <<":", " ">> \o v \o <<";">>)

\* the property's value is an identifier bound to a declaration
BoundIdent ==
    /\ FirstRuleDoc
    /\ FirstValue.kind = "Ident"
    /\ FirstValue.Obj # <<>>

\* C11: a property whose value is an identifier bound to a variable
\* declaration is emitted with the declared value text, whether the
\* identifier is bound to a value declaration, to an assignment, to another
\* identifier, or directly to a literal.
C11_IdentEvaluatesToDeclared ==
    (gpc = "done" /\ BoundIdent) => FirstRuleReads(DeclaredValue(FirstValue))

RECURSIVE EndsAtLiteral(_)
\* the identifier's declaration is, at the end of a chain of identifiers, a
\* literal itself
EndsAtLiteral(i) ==
    /\ i.Obj # <<>>
    /\ \/ i.Obj[1].kind = "BasicLit"
       \/ i.Obj[1].kind = "Ident" /\ EndsAtLiteral(i.Obj[1])

\* what the generator emits for such an identifier: the empty text
C11_LiteralGivesEmpty ==
    (gpc = "done" /\ BoundIdent /\ EndsAtLiteral(FirstValue)) => FirstRuleReads(<<>>)

C11_LiteralReached ==
    gpc = "done" /\ BoundIdent /\ FirstValue.Obj[1] = Lit1px

\* evaluating the property's value reports an error: resolveExpr returns one
\* for the value or for an expression inside it
ReportsError(e) ==
    LET r == simplifyExprs([err |-> ""], <<e>>) IN r.err # "" \/ r.c.err # ""

\* C12: when the evaluation of a property value reports an error, the
\* compile call returns a non-nil error, never a success result with output
\* text.
C12_ErrorIsReturned ==
    (gpc = "done" /\ FirstRuleDoc /\ ReportsError(FirstValue)) => ret[1].err # ""

\* the call has returned for a file whose property value is a call with a nil
\* result, with a nil error and the text written so far
C12_NilCallReturnsText ==
    /\ gpc = "done"
    /\ doc = <<SelStmt(SelNames[1], <<RuleWidth(CallNil)>>)>>
    /\ ctx.err = "call return was nil"
    /\ ret = <<[s |-> <<".", "a", " ", "{", "\n", " ", " ", "w", "i", "d", "t", "h", ":", " ", ";", " ", "}", "\n">>, err |-> ""]>>

\* the lines of the output
Lines == Split(ctx.buf, <<"\n">>)

RECURSIVE Indent(_)
\* the number of spaces a line begins with
Indent(l) == IF l # <<>> /\ Head(l) = " " THEN 1 + Indent(Tail(l)) ELSE 0

\* the line that opens a block, and the line that closes one
IsSelLine(l) == l # <<>> /\ l[Len(l)] = "{"
IsCloseLine(l) == l # <<>> /\ l[Len(l)] = "}"

\* lines j < k open two blocks emitted one after the other at the same depth
ConsecutiveBlocks(j, k) ==
    /\ j < k
    /\ IsSelLine(Lines[j]) /\ IsSelLine(Lines[k])
    /\ Indent(Lines[j]) = Indent(Lines[k])
    /\ \A m \in (j + 1)..(k - 1) : ~IsSelLine(Lines[m])

\* exactly one empty line stands between the closing line and line k
OneBlankBefore(k) ==
    /\ k > 2
    /\ Lines[k - 1] = <<>>
    /\ IsCloseLine(Lines[k - 2])

RECURSIVE NoComments(_)
\* no comment is among the statements, at any depth
NoComments(list) ==
    \A i \in 1..Len(list) :
        /\ list[i].kind # "Comment"
        /\ list[i].kind = "SelStmt" => NoComments(list[i].List)

C13_WitnessTop ==
    /\ gpc = "done"
    /\ doc = <<SelStmt(SelNames[1], <<RuleRed>>), SelStmt(SelNames[1], <<RuleBlue>>)>>
    /\ ConsecutiveBlocks(1, 4)
    /\ OneBlankBefore(4)

\* C22: visiting a block leaves the level equal to its value immediately
\* before the block was entered, for every nesting of blocks whose enclosing
\* scopes do or do not hold declared rules.
C22_LevelRestored ==
    [][ (gpc = "walk" /\ agenda # <<>> /\ Head(agenda).op = "Leave")
            => ctx'.level = Head(agenda).entered ]_vars

\* C22 for the blocks entered at level 0
C22_LevelRestoredAtZero ==
    [][ (gpc = "walk" /\ agenda # <<>> /\ Head(agenda).op = "Leave"
            /\ Head(agenda).entered = 0)
            => ctx'.level = 0 ]_vars

\* the innermost block of `.a { color: red; .b { .c { color: red; } } }` has
\* been left: it was entered at level 1 and the level is 0
C22_LevelLost ==
    /\ doc = <<SelStmt(SelNames[1], <<RuleRed,
                  SelStmt(SelNames[2], <<SelStmt(SelNames[3], <<RuleRed>>)>>)>>)>>
    /\ gpc = "walk"
    /\ Len(agenda) = 2
    /\ Head(agenda).op = "Leave"
    /\ Head(agenda).entered = 0
    /\ ctx.level = 0
    /\ ctx.buf # <<>> /\ Count(ctx.buf, "{") = 2

\* the file is one block whose first property has a value list that begins
\* and ends with a quoted-string marker
QuotedDoc ==
    /\ doc # <<>>
    /\ doc[1].kind = "SelStmt"
    /\ doc[1].List # <<>>
    /\ doc[1].List[1].kind = "RuleSpec"
    /\ Len(doc[1].List[1].Values) >= 2
    /\ IsQString(doc[1].List[1].Values[1])
    /\ IsQString(doc[1].List[1].Values[Len(doc[1].List[1].Values)])

\* the texts of the values between the two markers, in order
Between ==
    LET vs == doc[1].List[1].Values
    IN  [i \in 1..(Len(vs) - 2) |-> vs[i + 1].Value]

\* C23: for a value list that begins and ends with a quoted-string marker,
\* evaluation strips both markers, joins all the values between them in
\* order with single spaces and wraps the result in double quotes; no value
\* between the markers is lost, for every list length.
C23_QuotedKeepsAll ==
    (QuotedDoc /\ gpc \in {"done", "panic"}) =>
        /\ gpc = "done"
        /\ FirstRuleReads(<<"\"">> \o Join(Between, <<" ">>) \o <<"\"">>)

\* what is emitted: the values between the markers but the last one
C23_QuotedLosesLast ==
    (QuotedDoc /\ gpc = "done") =>
        FirstRuleReads(<<"\"">> \o Join(SubSeq(Between, 1, Len(Between) - 1), <<" ">>)
                           \o <<"\"">>)

\* the list "a b" read as "a"
C23_LastLost ==
    /\ gpc = "done"
    /\ QuotedDoc
    /\ Between = <<<<"a">>, <<"b">>>>
    /\ FirstRuleReads(<<"\"", "a", "\"">>)

\* the list of the two markers alone: the slice expression panics
C23_EmptyPanics ==
    /\ gpc = "panic"
    /\ QuotedDoc
    /\ Between = <<>>

RECURSIVE Unmatched(_)
\* the number of opening braces of s not yet closed, or -1 when a closing
\* brace stands where none is open
Unmatched(s) ==
    IF s = <<>> THEN 0
    ELSE LET u == Unmatched(SubSeq(s, 1, Len(s) - 1)) IN
         IF u < 0 THEN -1
         ELSE IF s[Len(s)] = "{" THEN u + 1
         ELSE IF s[Len(s)] = "}" THEN u - 1
         ELSE u

\* C24: at the end of a walk over any tree of nested blocks, property
\* declarations and comments, every brace opened has been closed exactly
\* once: as many closing as opening braces are emitted, and no closing brace
\* without an unmatched opening brace before it.
C24_BracesBalanced ==
    gpc = "done" => Unmatched(ctx.buf) = 0

\* C24 for the files without comments
C24_BalancedWithoutComments ==
    (gpc = "done" /\ NoComments(doc)) => Unmatched(ctx.buf) = 0

\* a comment between two blocks opens a brace that is never closed
C24_CommentBraceOpen ==
    /\ gpc = "done"
    /\ doc = <<SelStmt(SelNames[1], <<RuleRed>>), CommentC>>
    /\ Unmatched(ctx.buf) = 1

\* a property declaration or a comment behind the first property is in the
\* output: those of the files are `color: ...` and `/* c */`
LaterEmitted ==
    \/ Contains(ctx.buf, <<"c", "o", "l", "o", "r", ":">>)
    \/ Contains(ctx.buf, CommentC.Text)

\* C25: once evaluating a property value has reported an error, directly or
\* inside a parenthesised sub-expression, no later property declaration or
\* comment of the file is emitted.
C25_NothingAfterError ==
    (gpc = "done" /\ FirstRuleDoc /\ ReportsError(FirstValue)) => ~LaterEmitted

\* C25 for an error that is not inside parentheses
C25_NothingAfterDirectError ==
    (gpc = "done" /\ FirstRuleDoc /\ ReportsError(FirstValue)
        /\ FirstValue.kind # "ParenExpr") => ~LaterEmitted

\* the property behind a failing call in parentheses is emitted
C25_EmittedAfterParenError ==
    /\ gpc = "done"
    /\ doc = <<SelStmt(SelNames[1], <<RuleWidth(ParenExpr(CallNil)), RuleRed>>)>>
    /\ ctx.err = ""
    /\ ctx.buf = <<".", "a", " ", "{", "\n", " ", " ", "w", "i", "d", "t", "h", ":", " ", ";", "\n", " ", " ", "c", "o", "l", "o", "r", ":", " ", "r", "e", "d", ";", " ", "}", "\n">>

\* a later property and a later block are skipped behind a failing call
C25_SkippedAfterError ==
    /\ gpc = "done"
    /\ doc = <<SelStmt(SelNames[1], <<RuleWidth(CallNil), RuleRed>>),
               SelStmt(SelNames[1], <<RuleBlue>>)>>
    /\ ~LaterEmitted

\* the declarations of the Heap that lead back to themselves
Cyclic == {"p1", "p2", "p3", "p4"}

\* the identifier is bound to a declaration that leads back to itself
BoundInCycle ==
    /\ BoundIdent
    /\ FirstValue.Obj[1].kind = "Ptr"
    /\ FirstValue.Obj[1].at \in Cyclic

\* the property has been visited
FirstRuleVisited == gpc \in {"done", "panic"}

\* C28: resolving an identifier terminates for every binding graph, also one
\* in which declarations refer to each other in a cycle: an identifier bound
\* to an identifier or an assignment that leads back to itself.
C28_ResolveTerminates ==
    (FirstRuleVisited /\ BoundIdent) => ~resolveIdent(FirstValue).overflow

\* C28 for the bindings without a cycle
C28_TerminatesWithoutCycle ==
    (FirstRuleVisited /\ BoundIdent /\ ~BoundInCycle) => ~resolveIdent(FirstValue).overflow

\* an identifier whose declaration is an identifier declared by the first:
\* the calls of resolveIdent nest without end and the run dies
C28_CycleOverflows ==
    /\ BoundInCycle
    /\ FirstValue.Obj[1].at = "p1"
    /\ gpc = "panic"
    /\ resolveIdent(FirstValue).overflow

\* an assignment whose right-hand side is the identifier it declares
C28_AssignCycleOverflows ==
    /\ BoundInCycle
    /\ FirstValue.Obj[1].at = "p4"
    /\ gpc = "panic"
    /\ resolveIdent(FirstValue).overflow

\* a line without the spaces it begins with
Unindented(l) == SubSeq(l, Indent(l) + 1, Len(l))

\* the selector a line that opens a block names
OpenedSel(l) == LET t == Unindented(l) IN SubSeq(t, 1, Len(t) - 2)

\* the line of a property declaration: name, colon, value
IsRuleLine(l) == ~IsSelLine(l) /\ \E i \in 1..Len(l) : l[i] = ":"

RECURSIVE EnclosingSels(_, _)
\* for each property declaration of the statements, in the order of the
\* file, the selector of the block that directly encloses it
EnclosingSels(list, sel) ==
    IF list = <<>> THEN <<>>
    ELSE LET n == Head(list)
             own == IF n.kind = "RuleSpec" THEN <<sel>>
                    ELSE IF n.kind = "SelStmt"
                         THEN EnclosingSels(n.List, n.Resolved[1].Value)
                         ELSE <<>>
         IN  own \o EnclosingSels(Tail(list), sel)

RECURSIVE PrintedUnder(_, _)
\* for each property declaration of the output, in its order, the selector
\* of the last brace opened before it
PrintedUnder(ls, cur) ==
    IF ls = <<>> THEN <<>>
    ELSE IF IsSelLine(Head(ls)) THEN PrintedUnder(Tail(ls), OpenedSel(Head(ls)))
    ELSE IF IsRuleLine(Head(ls)) THEN <<cur>> \o PrintedUnder(Tail(ls), cur)
    ELSE PrintedUnder(Tail(ls), cur)

RECURSIVE FollowsBlock(_)
\* in some block a property declaration stands behind a nested block
FollowsBlock(list) ==
    \E i \in 1..Len(list) :
        /\ list[i].kind = "SelStmt"
        /\ \/ FollowsBlock(list[i].List)
           \/ \E j \in (i + 1)..Len(list) : list[j].kind = "RuleSpec"

\* the walk ended without an error
WalkedClean == gpc = "done" /\ ctx.err = ""

\* C29: every property declaration is emitted inside the brace opened for
\* the selector of the block that directly encloses it, also a declaration
\* that follows a nested (possibly empty) block within its parent block.
C29_UnderEnclosingSel ==
    WalkedClean => PrintedUnder(Lines, <<>>) = EnclosingSels(doc, <<>>)

\* C29 for the files in which no declaration follows a nested block
C29_UnderEnclosingUnlessAfterBlock ==
    (WalkedClean /\ ~FollowsBlock(doc)) =>
        PrintedUnder(Lines, <<>>) = EnclosingSels(doc, <<>>)

\* a declaration behind an empty nested block is printed under the nested
\* block's selector
C29_AfterEmptyBlock ==
    /\ WalkedClean
    /\ doc = <<SelStmt(SelNames[1], <<SelStmt(SelNames[2], <<>>), RuleRed>>)>>
    /\ PrintedUnder(Lines, <<>>) = <<SelNames[2]>>

\* and so is a declaration behind a nested block with a declaration
C29_AfterNestedBlock ==
    /\ WalkedClean
    /\ doc = <<SelStmt(SelNames[1], <<RuleRed, SelStmt(SelNames[2], <<RuleBlue>>), RuleRed>>)>>
    /\ PrintedUnder(Lines, <<>>) = <<SelNames[1], SelNames[2], SelNames[2]>>

====
